---------------------------- MODULE Spec2Model ----------------------------
(***************************************************************************)
(* Model of the grid drop container (DropGridRef), the CdkDropGrid         *)
(* directive that feeds it, and the part of the drag controller that       *)
(* drives it, of the angular-dnd-grid drag-drop module.                    *)
(*                                                                         *)
(* Indices are 0-based as in the source; a sequence s is read at s[i + 1]. *)
(* A rectangle is [left, top, width, height]; right and bottom are         *)
(* derived, which is what getMutableClientRect/adjustClientRect maintain.  *)
(***************************************************************************)
EXTENDS Integers, Sequences, FiniteSets, TLC

\* ------------------------------------------------------------------------
\* The page: two grid containers and four draggable items.
\* ------------------------------------------------------------------------
Containers == {"X", "Y"}
Items == {"a", "b", "c", "d"}

\* Bounds of the exploration.
MaxSorts == 2        \* swaps performed by _sortItem within one gesture
MaxItems == 3        \* members a container is given by withItems
MaxChanges == 1      \* changes of the members of the containers

\* Layout of the page as the browser computes it: every container lays its
\* children out row by row in two columns of square cells.
Layout ==
  [X |-> [left |-> 20, top |-> 20, width |-> 40, height |-> 40],
   Y |-> [left |-> 80, top |-> 20, width |-> 40, height |-> 40]]
Cell == [size |-> 20, cols |-> 2]

\* Pointer positions that the model feeds to the container: the centre of
\* the first three cells of X, a point just outside X but inside its
\* proximity band, the centre of the first two cells of Y, and the centre of
\* the viewport, far from both.
Points ==
  { <<30, 30>>, <<50, 30>>, <<30, 50>>, <<61, 30>>, <<90, 30>>, <<110, 30>>,
    <<200, 200>> }

\* Indices at which the controller drops an item.
DropIndexes == {0, 2}

\* Identities of the pointer-direction objects handed to _sortItem. 0 is the
\* fresh {x: 0, y: 0} object that _reset creates; it is never passed in.
DeltaRefs == {1, 2}

NoItem == "none"
NoContainer == "none"
NoRect == [left |-> 0, top |-> 0, width |-> -1, height |-> -1]   \* undefined

Right(r) == r.left + r.width
Bottom(r) == r.top + r.height

\* ------------------------------------------------------------------------
\* Helpers of drop-container-ref.ts and drag-utils.ts
\* ------------------------------------------------------------------------
RECURSIVE FindFrom(_, _)
FindFrom(holds, i) ==
  IF i > Len(holds) THEN -1
  ELSE IF holds[i] THEN i - 1
  ELSE FindFrom(holds, i + 1)

\* findIndex(array, predicate): index of the first element that satisfies
\* the predicate, -1 when there is none; holds[k] is the value of the
\* predicate on the k-th element of the array.
findIndex(holds) == FindFrom(holds, 1)

\* Array.prototype.indexOf
indexOf(s, e) == findIndex([k \in 1..Len(s) |-> s[k] = e])

clamp(value, max) == IF value < 0 THEN 0 ELSE IF value > max THEN max ELSE value

\* moveItemInArray(array, fromIndex, toIndex): the element at fromIndex is
\* taken out and put back at toIndex, the elements between shift by one.
moveItemInArray(array, fromIndex, toIndex) ==
  LET from == clamp(fromIndex, Len(array) - 1)
      to == clamp(toIndex, Len(array) - 1)
  IN IF from = to \/ Len(array) = 0 THEN array
     ELSE [k \in 1..Len(array) |->
            LET i == k - 1 IN
            IF i = to THEN array[from + 1]
            ELSE IF from < to /\ i >= from /\ i < to THEN array[k + 1]
            ELSE IF to < from /\ i > to /\ i <= from THEN array[k - 1]
            ELSE array[k]]

\* isInsideClientRect(clientRect, x, y)
isInsideClientRect(r, x, y) ==
  y >= r.top /\ y <= Bottom(r) /\ x >= r.left /\ x <= Right(r)

\* adjustClientRect(clientRect, top, left): shifts the rectangle in place.
adjustClientRect(r, top, left) ==
  [r EXCEPT !.top = @ + top, !.left = @ + left]

\* DROP_PROXIMITY_THRESHOLD = 0.05, kept as a fraction of 100 so that the
\* comparisons of _isPointerNearDropContainer stay exact on integers.
DROP_PROXIMITY_THRESHOLD == 5

\* Array.prototype.splice(index, 0, item) / splice(index, 1)
SpliceIn(s, index, e) ==
  LET at == clamp(index, Len(s))
  IN SubSeq(s, 1, at) \o <<e>> \o SubSeq(s, at + 1, Len(s))
SpliceOut(s, index) == SubSeq(s, 1, index) \o SubSeq(s, index + 2, Len(s))

Without(s, e) == SelectSeq(s, LAMBDA x : x # e)
Elems(s) == {s[k] : k \in 1..Len(s)}

\* ------------------------------------------------------------------------
\* State
\* ------------------------------------------------------------------------
VARIABLES
  _draggables,         \* [c]: declared members, set by withItems
  _activeDraggables,   \* [c]: working copy used during a gesture
  activeAssigned,      \* [c]: _activeDraggables has been assigned (not undefined)
  _itemPositions,      \* [c]: position cache, entries [drag, clientRect, offset]
  _isDragging,         \* [c]
  _clientRect,         \* [c]: cached rectangle of the container, NoRect = undefined
  _previousSwap,       \* [c]: [drag, delta] of the last swap
  _siblings,           \* [c]: connected containers, in order
  _activeSiblings,     \* [c]: connected containers with a gesture in progress
  sortingDisabled,     \* [c]: the flag of the DropGridRef
  cdkSortingDisabled,  \* [c]: the cdkDropGridSortingDisabled input of the directive
  scrollListener,      \* [c]: 'scroll' listener bound on the container element
  viewportSub,         \* [c]: _viewportScrollSubscription is open
  scrollSubscriptions, \* [c]: open subscriptions of the container to the
                       \*   scroll stream of the registry
  scrollLoops,         \* [c]: auto-scroll intervals currently subscribed
  scrollDir,           \* [c]: [v, h, node] = scroll directions and _scrollNode
  scrollStarted,       \* containers whose scroll interval the last operation
                       \*   started
  autoScrollDisabled,  \* [c]: the flag of the DropGridRef
  cdkAutoScrollDisabled, \* [c]: the cdkDropGridAutoScrollDisabled input
  connectedTo,         \* [c]: the cdkDropGridConnectedTo input: containers and
                       \*   ids of containers
  _direction,          \* [c]: layout direction, "ltr" or "rtl"
  scrollTop,           \* [c]: scrollTop of the container element
  _scrollPosition,     \* [c]: the top of the cached scroll position
  viewportScroll,      \* [top, left]: the scroll position of the viewport, as
                       \*   the ViewportRuler reports it
  _viewportScrollPosition, \* [c]: the cached scroll position of the viewport
  completed,           \* containers whose subjects (beforeStarted, entered,
                       \*   exited, dropped, sorted, _stopScrollTimers) are
                       \*   completed
  _dropInstances,      \* the drop containers of the DragDropRegistry
  dom,                 \* [c]: children of the container element, in document
                       \*      order; the dragged item stands for its placeholder
  transform,           \* [i]: style.transform of the root element of item i
  placeholderTransform,\* style.transform of the placeholder of the dragged item
  drag,                \* the drag controller: [item, initial, container, index,
                       \*   entering] - dragged item, its initial container, the
                       \*   container it is in, its index at pick-up, and the
                       \*   pending enter of a transfer
  sorts,               \* swaps done in the current gesture (bounded by MaxSorts)
  changes,             \* changes of members so far (bounded by MaxChanges)
  op,                  \* the last operation and its arguments
  emitted,             \* events emitted by the DropGridRef in the last operation
  cdkEmitted,          \* events emitted by the directive in the last operation
  error,               \* error thrown by the last operation, "none" if none
  result,              \* value returned by the last query
  registry,            \* the ResizeRegistry service and the listeners of the
                       \*   document it binds (see NewRegistry)
  cdkResize            \* a CdkResize directive, its inputs and the root and
                       \*   boundary installed in its ResizeRef (see
                       \*   NewCdkResize)

vars == << _draggables, _activeDraggables, activeAssigned, _itemPositions,
           _isDragging, _clientRect, _previousSwap, _siblings, _activeSiblings,
           sortingDisabled, cdkSortingDisabled, scrollListener, viewportSub,
           scrollSubscriptions,
           scrollLoops, scrollDir, scrollStarted, autoScrollDisabled,
           cdkAutoScrollDisabled, connectedTo, _direction, scrollTop,
           _scrollPosition, viewportScroll, _viewportScrollPosition,
           completed,
           _dropInstances, dom, transform, placeholderTransform, drag,
           sorts, changes, op, emitted, cdkEmitted, error, result >>

\* The state as one record, so that a method can be written as a function
\* from state to state and methods can call one another.
Cur ==
  [ _draggables |-> _draggables, _activeDraggables |-> _activeDraggables,
    activeAssigned |-> activeAssigned, _itemPositions |-> _itemPositions,
    _isDragging |-> _isDragging, _clientRect |-> _clientRect,
    _previousSwap |-> _previousSwap, _siblings |-> _siblings,
    _activeSiblings |-> _activeSiblings, sortingDisabled |-> sortingDisabled,
    cdkSortingDisabled |-> cdkSortingDisabled,
    scrollListener |-> scrollListener, viewportSub |-> viewportSub,
    scrollSubscriptions |-> scrollSubscriptions,
    scrollLoops |-> scrollLoops, scrollDir |-> scrollDir,
    scrollStarted |-> {}, autoScrollDisabled |-> autoScrollDisabled,
    cdkAutoScrollDisabled |-> cdkAutoScrollDisabled,
    connectedTo |-> connectedTo, _direction |-> _direction,
    scrollTop |-> scrollTop, _scrollPosition |-> _scrollPosition,
    viewportScroll |-> viewportScroll,
    _viewportScrollPosition |-> _viewportScrollPosition,
    completed |-> completed, _dropInstances |-> _dropInstances, dom |-> dom,
    transform |-> transform, placeholderTransform |-> placeholderTransform,
    drag |-> drag, sorts |-> sorts, changes |-> changes, op |-> op,
    emitted |-> <<>>, cdkEmitted |-> <<>>, error |-> "none", result |-> "none" ]

Commit(s) ==
  /\ _draggables' = s._draggables
  /\ _activeDraggables' = s._activeDraggables
  /\ activeAssigned' = s.activeAssigned
  /\ _itemPositions' = s._itemPositions
  /\ _isDragging' = s._isDragging
  /\ _clientRect' = s._clientRect
  /\ _previousSwap' = s._previousSwap
  /\ _siblings' = s._siblings
  /\ _activeSiblings' = s._activeSiblings
  /\ sortingDisabled' = s.sortingDisabled
  /\ cdkSortingDisabled' = s.cdkSortingDisabled
  /\ scrollStarted' = s.scrollStarted
  /\ autoScrollDisabled' = s.autoScrollDisabled
  /\ cdkAutoScrollDisabled' = s.cdkAutoScrollDisabled
  /\ connectedTo' = s.connectedTo
  /\ _direction' = s._direction
  /\ scrollTop' = s.scrollTop
  /\ _scrollPosition' = s._scrollPosition
  /\ viewportScroll' = s.viewportScroll
  /\ _viewportScrollPosition' = s._viewportScrollPosition
  /\ completed' = s.completed
  /\ _dropInstances' = s._dropInstances
  /\ scrollListener' = s.scrollListener
  /\ viewportSub' = s.viewportSub
  /\ scrollSubscriptions' = s.scrollSubscriptions
  /\ scrollLoops' = s.scrollLoops
  /\ scrollDir' = s.scrollDir
  /\ dom' = s.dom
  /\ transform' = s.transform
  /\ placeholderTransform' = s.placeholderTransform
  /\ drag' = s.drag
  /\ sorts' = s.sorts
  /\ changes' = s.changes
  /\ op' = s.op
  /\ emitted' = s.emitted
  /\ cdkEmitted' = s.cdkEmitted
  /\ error' = s.error
  /\ result' = s.result
  /\ UNCHANGED <<registry, cdkResize>>


\* ------------------------------------------------------------------------
\* The browser: measuring elements
\* ------------------------------------------------------------------------
ZeroOffset == [x |-> 0, y |-> 0]

\* The scroll position {top: 0, left: 0}.
NoScroll == [top |-> 0, left |-> 0]

\* Rectangle of the k-th child (0-based) of container c, before transforms.
SlotRect(c, k) ==
  [left |-> Layout[c].left + (k % Cell.cols) * Cell.size,
   top |-> Layout[c].top + (k \div Cell.cols) * Cell.size,
   width |-> Cell.size, height |-> Cell.size]

\* registry.isDragging(drag): a single pointer drags at most one item.
isDragging(s, item) == s.drag.item = item

\* getMutableClientRect(element) of the element _cacheItemPositions measures
\* for an item: the placeholder of a dragged item, else its root element;
\* getBoundingClientRect includes the element's transform. An element that
\* is not in the document measures as the empty rectangle at the origin. The
\* content of a scrolled container is shifted up by its scrollTop, and the
\* page by the scroll position of the viewport.
getMutableClientRect(s, item) ==
  LET home == {c \in Containers : item \in Elems(s.dom[c])}
      t == IF isDragging(s, item) THEN s.placeholderTransform
           ELSE s.transform[item]
  IN IF home = {} THEN [left |-> 0, top |-> 0, width |-> 0, height |-> 0]
     ELSE LET c == CHOOSE k \in home : TRUE
              r == SlotRect(c, indexOf(s.dom[c], item))
          IN adjustClientRect(r, t.y - s.scrollTop[c] - s.viewportScroll.top,
                                 t.x - s.viewportScroll.left)

\* ------------------------------------------------------------------------
\* Events
\* ------------------------------------------------------------------------
\* CdkDropGrid._handleEvents: what the directive emits for an event of its
\* DropGridRef; the container and the item are replaced by their data (the
\* directive and the CdkDrag), which the model names like the refs.
_handleEvents(ev) ==
  IF ev.type = "entered" THEN
    [type |-> "entered", container |-> ev.container, item |-> ev.item,
     currentIndex |-> ev.currentIndex]
  ELSE IF ev.type = "exited" THEN
    [type |-> "exited", container |-> ev.container, item |-> ev.item]
  ELSE IF ev.type = "sorted" THEN
    [type |-> "sorted", previousIndex |-> ev.previousIndex,
     currentIndex |-> ev.currentIndex, container |-> ev.container,
     item |-> ev.item]
  ELSE
    [type |-> "dropped", previousIndex |-> ev.previousIndex,
     currentIndex |-> ev.currentIndex,
     previousContainer |-> ev.previousContainer, container |-> ev.container,
     item |-> ev.item, isPointerOverContainer |-> ev.isPointerOverContainer,
     distance |-> ev.distance]

\* subject.next(ev) with the directive subscribed to it; a completed subject
\* delivers nothing.
Emit(s, ev) ==
  IF ev.container \in s.completed THEN s
  ELSE [s EXCEPT !.emitted = Append(@, ev),
                 !.cdkEmitted = Append(@, _handleEvents(ev))]

Throw(s, e) == [s EXCEPT !.error = e]


\* ------------------------------------------------------------------------
\* DropGridRef (the full implementation)
\* ------------------------------------------------------------------------
NoSwap == [drag |-> NoItem, delta |-> 0]

\* _stopScrolling(): _stopScrollTimers.next() ends every interval that was
\* piped through takeUntil(_stopScrollTimers).
_stopScrolling(s, c) ==
  IF c \in s.completed THEN s ELSE [s EXCEPT !.scrollLoops[c] = 0]

\* _removeListeners(): removeEventListener takes the one 'scroll' listener
\* off the element, and unsubscribe closes the subscription the field holds,
\* if it is open.
_removeListeners(s, c) ==
  [s EXCEPT !.scrollListener[c] = FALSE, !.viewportSub[c] = FALSE,
            !.scrollSubscriptions[c] = IF s.viewportSub[c] THEN @ - 1 ELSE @]

\* _cacheOwnPosition()
_cacheOwnPosition(s, c) ==
  [s EXCEPT !._clientRect[c] =
              adjustClientRect(Layout[c], -s.viewportScroll.top,
                               -s.viewportScroll.left),
            !._scrollPosition[c] = s.scrollTop[c]]

\* The comparator of the sort in _cacheItemPositions, as "a goes before b".
PositionBefore(a, b) ==
  IF a.clientRect.left = b.clientRect.left
  THEN a.clientRect.top < b.clientRect.top
  ELSE a.clientRect.left < b.clientRect.left

\* Array.prototype.sort with that comparator (stable: entries that compare
\* equal keep their order).
RECURSIVE SortPositions(_)
SortPositions(seq) ==
  IF Len(seq) <= 1 THEN seq
  ELSE LET last == seq[Len(seq)]
           front == SortPositions(SubSeq(seq, 1, Len(seq) - 1))
           at == findIndex([k \in 1..Len(front) |->
                              PositionBefore(last, front[k])])
       IN IF at = -1 THEN Append(front, last) ELSE SpliceIn(front, at, last)

\* A _cacheItemPositions that keeps the measured entries in the order of the
\* active list.
_cacheItemPositionsInListOrder(s, c) ==
  [s EXCEPT !._itemPositions[c] =
     [k \in 1..Len(s._activeDraggables[c]) |->
        [drag |-> s._activeDraggables[c][k],
         offset |-> ZeroOffset,
         clientRect |-> getMutableClientRect(s, s._activeDraggables[c][k])]]]

\* _cacheItemPositions()
_cacheItemPositions(s, c) ==
  LET measured == [k \in 1..Len(s._activeDraggables[c]) |->
                    [drag |-> s._activeDraggables[c][k],
                     offset |-> ZeroOffset,
                     clientRect |->
                       getMutableClientRect(s, s._activeDraggables[c][k])]]
  IN [s EXCEPT !._itemPositions[c] = SortPositions(measured)]

\* _cacheItems()
_cacheItems(s, c) ==
  LET s1 == [s EXCEPT !._activeDraggables[c] = s._draggables[c],
                      !.activeAssigned[c] = TRUE]
  IN _cacheOwnPosition(_cacheItemPositions(s1, c), c)

\* A _startReceiving that adds the sibling and measures whether the sibling
\* is in the set or not.
_startReceivingAnew(s, c, sibling) ==
  _cacheOwnPosition([s EXCEPT !._activeSiblings[c] = @ \cup {sibling}], c)

\* _startReceiving(sibling), called on container c
_startReceiving(s, c, sibling) ==
  IF sibling \notin s._activeSiblings[c]
  THEN _cacheOwnPosition([s EXCEPT !._activeSiblings[c] = @ \cup {sibling}], c)
  ELSE s

\* _stopReceiving(sibling), called on container c
_stopReceiving(s, c, sibling) ==
  [s EXCEPT !._activeSiblings[c] = @ \ {sibling}]

\* isReceiving()
isReceiving(s, c) == s._activeSiblings[c] # {}

\* isReceiving() of the DropGridRef of containers/drop-grid-ref.ts.
isReceivingStub(s, c) == TRUE

\* siblings.forEach(sibling => sibling._startReceiving(this))
RECURSIVE StartReceivingAll(_, _, _)
StartReceivingAll(s, c, sibs) ==
  IF sibs = <<>> THEN s
  ELSE StartReceivingAll(_startReceiving(s, Head(sibs), c), c, Tail(sibs))

\* siblings.forEach(sibling => sibling._stopReceiving(this))
RECURSIVE StopReceivingAll(_, _, _)
StopReceivingAll(s, c, sibs) ==
  IF sibs = <<>> THEN s
  ELSE StopReceivingAll(_stopReceiving(s, Head(sibs), c), c, Tail(sibs))

\* CdkDropGrid._syncInputs, the beforeStarted subscriber: the directive's
\* inputs are copied to the ref, and the ref is connected to the directive's
\* siblings, itself filtered out. Every container of the page is in one
\* group.
\* The id input of the directive of a container.
IdOf(c) == IF c = "X" THEN "#X" ELSE "#Y"

\* CdkDropGrid._dropLists and the items of the group: the directives that
\* are not destroyed, in the order of their creation.
_dropLists(s) == SelectSeq(<<"X", "Y">>, LAMBDA d : d \notin s.completed)

\* typeof drop === 'string' ? _dropLists.find(list => list.id === drop) : drop
Resolve(s, ref) ==
  IF ref \in Containers THEN ref
  ELSE IF \E d \in Elems(_dropLists(s)) : IdOf(d) = ref
  THEN CHOOSE d \in Elems(_dropLists(s)) : IdOf(d) = ref
  ELSE "undefined"

\* _group._items.forEach(drop => siblings.indexOf(drop) === -1 &&
\* siblings.push(drop))
RECURSIVE PushMissing(_, _)
PushMissing(siblings, items) ==
  IF items = <<>> THEN siblings
  ELSE PushMissing(IF Head(items) \in Elems(siblings) THEN siblings
                   ELSE Append(siblings, Head(items)),
                   Tail(items))

\* The siblings the beforeStarted subscriber connects the ref to.
SyncedSiblings(s, c) ==
  SelectSeq(
    PushMissing([k \in 1..Len(s.connectedTo[c]) |->
                   Resolve(s, s.connectedTo[c][k])],
                _dropLists(s)),
    LAMBDA d : d # "undefined" /\ d # c)

\* connectedTo(connectedTo)
ConnectTo(s, c, siblings) == [s EXCEPT !._siblings[c] = siblings]

_syncInputs(s, c) ==
  ConnectTo([s EXCEPT !.sortingDisabled[c] = s.cdkSortingDisabled[c],
                      !.autoScrollDisabled[c] = s.cdkAutoScrollDisabled[c]],
            c, SyncedSiblings(s, c))

\* A start() that does not remove the listeners it has before it binds
\* them; addEventListener does not bind the same function twice.
startKeepingListeners(s, c) ==
  LET s0 == [s EXCEPT !.emitted =
                IF c \in s.completed THEN @
                ELSE Append(@, [type |-> "beforeStarted", container |-> c])]
      s1 == IF c \in s.completed THEN s0 ELSE _syncInputs(s0, c)
      s2 == [s1 EXCEPT !._isDragging[c] = TRUE]
      s3 == _cacheItems(s2, c)
      s4 == StartReceivingAll(s3, c, s3._siblings[c])
  IN [s4 EXCEPT !.scrollListener[c] = TRUE, !.viewportSub[c] = TRUE,
                !.scrollSubscriptions[c] = @ + 1,
                !._viewportScrollPosition[c] = s.viewportScroll]

\* start()
start(s, c) ==
  LET s0 == [s EXCEPT !.emitted =                   \* beforeStarted.next()
                IF c \in s.completed THEN @
                ELSE Append(@, [type |-> "beforeStarted", container |-> c])]
      s1 == IF c \in s.completed THEN s0 ELSE _syncInputs(s0, c)
      s2 == [s1 EXCEPT !._isDragging[c] = TRUE]
      s3 == _cacheItems(s2, c)
      s4 == StartReceivingAll(s3, c, s3._siblings[c])
      s5 == _removeListeners(s4, c)
  IN [s5 EXCEPT !.scrollListener[c] = TRUE, !.viewportSub[c] = TRUE,
                !.scrollSubscriptions[c] = @ + 1,
                !._viewportScrollPosition[c] = s.viewportScroll]

\* withDirection(direction)
withDirection(s, c, direction) == [s EXCEPT !._direction[c] = direction]

\* Array.prototype.reverse on a copy
Reverse(seq) == [k \in 1..Len(seq) |-> seq[Len(seq) + 1 - k]]

\* A getItemIndex that reads the cache from the left in either direction.
getItemIndexFromLeft(s, c, item) ==
  IF ~s._isDragging[c] THEN indexOf(s._draggables[c], item)
  ELSE findIndex([k \in 1..Len(s._itemPositions[c]) |->
                    s._itemPositions[c][k].drag = item])

\* getItemIndex(item)
getItemIndex(s, c, item) ==
  IF ~s._isDragging[c] THEN indexOf(s._draggables[c], item)
  ELSE findIndex([k \in 1..Len(s._itemPositions[c]) |->
                    (IF s._direction[c] = "rtl"
                     THEN Reverse(s._itemPositions[c])
                     ELSE s._itemPositions[c])[k].drag = item])

\* The hit test at lines 790-791: Math.floor leaves the integer pixel
\* coordinates of the model unchanged.
PointerOverRect(r, x, y) ==
  (x >= r.left /\ x <= Right(r)) /\ (y >= r.top /\ y <= Bottom(r))

\* An _getItemIndexFromPointerPosition that does not pass over the sibling of
\* the last swap.
_getItemIndexIgnoringPreviousSwap(s, c, item, x, y, delta) ==
  LET array == s._itemPositions[c]
      Hit(e, i) ==
        IF e.drag = item THEN Len(array) < 2
        ELSE PointerOverRect(e.clientRect, x, y)
  IN findIndex([k \in 1..Len(array) |-> Hit(array[k], k - 1)])

\* _getItemIndexFromPointerPosition(item, pointerX, pointerY, delta);
\* delta = 0 stands for the omitted argument.
_getItemIndexFromPointerPosition(s, c, item, x, y, delta) ==
  LET array == s._itemPositions[c]
      Hit(e, i) ==
        IF e.drag = item THEN Len(array) < 2
        ELSE IF delta # 0 /\ e.drag = s._previousSwap[c].drag
                /\ delta = s._previousSwap[c].delta THEN FALSE
        ELSE PointerOverRect(e.clientRect, x, y)
  IN findIndex([k \in 1..Len(array) |-> Hit(array[k], k - 1)])

\* An _isPointerNearDropContainer that holds of every pointer.
_isPointerNearDropContainerAnywhere(s, c, x, y) == TRUE

\* _isPointerNearDropContainer(pointerX, pointerY): the thresholds are
\* width * 0.05 and height * 0.05; both sides are multiplied by 100.
_isPointerNearDropContainer(s, c, x, y) ==
  LET r == s._clientRect[c]
      xThreshold == r.width * DROP_PROXIMITY_THRESHOLD
      yThreshold == r.height * DROP_PROXIMITY_THRESHOLD
  IN /\ 100 * y > 100 * r.top - yThreshold
     /\ 100 * y < 100 * Bottom(r) + yThreshold
     /\ 100 * x > 100 * r.left - xThreshold
     /\ 100 * x < 100 * Right(r) + xThreshold

\* A _reset that keeps the last swap and the scroll interval.
_resetKeepingSwap(s, c) ==
  LET s1 == [s EXCEPT !._isDragging[c] = FALSE,
                      !.transform =
                        [i \in Items |->
                          IF i \in Elems(s._activeDraggables[c]) THEN ZeroOffset
                          ELSE s.transform[i]]]
      s3 == StopReceivingAll(s1, c, s1._siblings[c])
  IN _removeListeners([s3 EXCEPT !._activeDraggables[c] = <<>>,
                                 !._itemPositions[c] = <<>>], c)

\* _reset(): reading forEach of an _activeDraggables that was never
\* assigned throws, after _isDragging was cleared.
_reset(s, c) ==
  LET s1 == [s EXCEPT !._isDragging[c] = FALSE]
  IN IF ~s.activeAssigned[c] THEN Throw(s1, "TypeError")
     ELSE
       LET s2 == [s1 EXCEPT !.transform =
                    [i \in Items |->
                      IF i \in Elems(s._activeDraggables[c]) THEN ZeroOffset
                      ELSE s.transform[i]]]
           s3 == StopReceivingAll(s2, c, s2._siblings[c])
           s4 == [s3 EXCEPT !._activeDraggables[c] = <<>>,
                            !._itemPositions[c] = <<>>,
                            !._previousSwap[c] = NoSwap]
       IN _removeListeners(_stopScrolling(s4, c), c)

\* A dispose that leaves the event subjects open.
disposeKeepingSubjects(s, c) ==
  [_removeListeners(_stopScrolling(s, c), c) EXCEPT
     !._activeSiblings[c] = {},
     !.scrollDir[c].node = "none",
     !._dropInstances = @ \ {c}]

\* dispose()
dispose(s, c) ==
  [_removeListeners(_stopScrolling(s, c), c) EXCEPT
     !.completed = @ \cup {c},
     !._activeSiblings[c] = {},
     !.scrollDir[c].node = "none",
     !._dropInstances = @ \ {c}]

\* exit(item)
exit(s, c, item) ==
  LET s1 == _reset(s, c)
  IN IF s1.error # "none" THEN s1
     ELSE Emit(s1, [type |-> "exited", item |-> item, container |-> c])

\* exit(item) of the DropGridRef of containers/drop-grid-ref.ts, whose body
\* is empty.
exitStub(s, c, item) == s

\* A drop that reports the container the item came from as the container
\* of the drop.
dropIntoPrevious(s, c, item, currentIndex, previousContainer, isPointerOverContainer, distance) ==
  LET s1 == _reset(s, c)
  IN Emit(s1, [type |-> "dropped", item |-> item,
               currentIndex |-> currentIndex,
               previousIndex |-> getItemIndex(s1, previousContainer, item),
               container |-> previousContainer,
               previousContainer |-> previousContainer,
               isPointerOverContainer |-> isPointerOverContainer,
               distance |-> distance])

\* drop(item, currentIndex, previousContainer, isPointerOverContainer, distance)
drop(s, c, item, currentIndex, previousContainer, isPointerOverContainer, distance) ==
  LET s1 == _reset(s, c)
  IN IF s1.error # "none" THEN s1
     ELSE Emit(s1, [type |-> "dropped", item |-> item,
                    currentIndex |-> currentIndex,
                    previousIndex |-> getItemIndex(s1, previousContainer, item),
                    container |-> c,
                    previousContainer |-> previousContainer,
                    isPointerOverContainer |-> isPointerOverContainer,
                    distance |-> distance])


\* The document after placeholder is moved in front of the root element of
\* reference (insertBefore), or to the end of container c (appendChild,
\* reference = NoItem).
MovePlaceholder(s, c, item, reference) ==
  LET removed == [k \in Containers |-> Without(s.dom[k], item)]
  IN [k \in Containers |->
       IF reference = NoItem
       THEN IF k = c THEN Append(removed[k], item) ELSE removed[k]
       ELSE IF reference \in Elems(removed[k])
            THEN SpliceIn(removed[k], indexOf(removed[k], reference), item)
            ELSE removed[k]]

\* An index that is taken from the pointer position also when sorting is
\* disabled.
EnterIndexFromPointer(s, c, item, x, y) ==
  _getItemIndexFromPointerPosition(s, c, item, x, y, 0)

\* enter, line 241-247: the index at which the item goes in; the declared
\* index when sorting is disabled and the item is a declared member, else
\* the index found under the pointer.
EnterIndex(s, c, item, x, y) ==
  IF s.sortingDisabled[c] /\ indexOf(s._draggables[c], item) # -1
  THEN indexOf(s._draggables[c], item)
  ELSE _getItemIndexFromPointerPosition(s, c, item, x, y, 0)

\* activeDraggables[i], NoItem for undefined.
ActiveAt(active, i) ==
  IF i >= 0 /\ i < Len(active) THEN active[i + 1] ELSE NoItem

\* enter, line 251-258: the item in front of which the placeholder goes.
EnterReference(active, item, newIndex) ==
  IF ActiveAt(active, newIndex) = item THEN ActiveAt(active, newIndex + 1)
  ELSE ActiveAt(active, newIndex)

\* enter, line 285: entered is emitted with the index of the item in the
\* refreshed cache.
EnterCached(s, c, item) ==
  Emit(s, [type |-> "entered", item |-> item, container |-> c,
           currentIndex |-> getItemIndex(s, c, item)])

\* An enter that does not take the item out of the active list first.
EnterAtKeeping(s, c, item, newIndex, newPositionReference) ==
  LET active == s._activeDraggables[c]
      useReference == newPositionReference # NoItem
                      /\ ~isDragging(s, newPositionReference)
  IN IF useReference
        /\ \A k \in Containers : newPositionReference \notin Elems(s.dom[k])
     THEN Throw(s, "TypeError")
     ELSE EnterCached(
            _cacheItemPositions(
              [s EXCEPT
                 !.dom = MovePlaceholder(s, c, item,
                           IF useReference THEN newPositionReference
                           ELSE NoItem),
                 !._activeDraggables[c] =
                    IF useReference THEN SpliceIn(active, newIndex, item)
                    ELSE Append(active, item),
                 !.placeholderTransform = ZeroOffset], c),
            c, item)

\* enter, line 260-284: the item is taken out of the active list if it is in
\* it, and goes in at newIndex in front of the reference, or at the end; the
\* transform of the placeholder is cleared and the positions are cached
\* again.
EnterAt(s, c, item, newIndex, newPositionReference) ==
  LET active == s._activeDraggables[c]
      currentIndex == indexOf(active, item)
      spliced == IF currentIndex > -1 THEN SpliceOut(active, currentIndex)
                 ELSE active
      useReference == newPositionReference # NoItem
                      /\ ~isDragging(s, newPositionReference)
  IN IF useReference
        /\ \A k \in Containers : newPositionReference \notin Elems(s.dom[k])
     THEN Throw(s, "TypeError")    \* parentElement is null
     ELSE EnterCached(
            _cacheItemPositions(
              [s EXCEPT
                 !.dom = MovePlaceholder(s, c, item,
                           IF useReference THEN newPositionReference
                           ELSE NoItem),
                 !._activeDraggables[c] =
                    IF useReference THEN SpliceIn(spliced, newIndex, item)
                    ELSE Append(spliced, item),
                 !.placeholderTransform = ZeroOffset], c),
            c, item)

\* enter, after start(): the index and the reference are determined.
EnterStarted(s, c, item, newIndex) ==
  EnterAt(s, c, item, newIndex,
          EnterReference(s._activeDraggables[c], item, newIndex))

\* enter(item, pointerX, pointerY)
enter(s, c, item, x, y) ==
  EnterStarted(start(s, c), c, item, EnterIndex(start(s, c), c, item, x, y))

\* _getItemOffsetPx(currentPosition, newPosition, delta)
_getItemOffsetPx(currentPosition, newPosition, delta) ==
  LET x == newPosition.left - currentPosition.left
      y == newPosition.top - currentPosition.top
  IN IF delta = -1
     THEN [x |-> x + newPosition.width - currentPosition.width,
           y |-> y + newPosition.height - currentPosition.height]
     ELSE [x |-> x, y |-> y]

\* _getSiblingOffsetPx(currentIndex, siblings, delta)
_getSiblingOffsetPx(currentIndex, siblings, delta) ==
  LET currentPosition == siblings[currentIndex + 1].clientRect
      at == currentIndex + delta * (-1)
      x == currentPosition.left
      y == currentPosition.top
  IN IF at >= 0 /\ at < Len(siblings)
     THEN LET immediateSibling == siblings[at + 1].clientRect
          IN IF delta = -1
             THEN [x |-> x - (immediateSibling.left - Right(currentPosition)),
                   y |-> y - (immediateSibling.top - Bottom(currentPosition))]
             ELSE [x |-> x + (currentPosition.left - Right(immediateSibling)),
                   y |-> y + (currentPosition.top - Bottom(immediateSibling))]
     ELSE [x |-> x, y |-> y]

\* A sort that exchanges the two entries instead of moving one.
OffsetMovedExchange(siblings, currentIndex, newIndex, item, itemOffset, siblingOffset) ==
  [k \in 1..Len(siblings) |->
    IF k = currentIndex + 1 THEN siblings[newIndex + 1]
    ELSE IF k = newIndex + 1 THEN siblings[currentIndex + 1]
    ELSE siblings[k]]

\* A sort that overwrites the target entry and leaves the item where it was.
OffsetMovedOverwrite(siblings, currentIndex, newIndex, item, itemOffset, siblingOffset) ==
  [k \in 1..Len(siblings) |->
    IF k = newIndex + 1 THEN siblings[currentIndex + 1] ELSE siblings[k]]

\* Lines 356-393 of _sortItem: the cache after the item at currentIndex was
\* moved to newIndex and every entry that changed place was offset.
OffsetMoved(siblings, currentIndex, newIndex, item, itemOffset, siblingOffset) ==
  LET moved == moveItemInArray(siblings, currentIndex, newIndex)
  IN [k \in 1..Len(moved) |->
       IF siblings[k].drag = moved[k].drag THEN moved[k]
       ELSE LET offset == IF moved[k].drag = item THEN itemOffset
                          ELSE siblingOffset
            IN [drag |-> moved[k].drag,
                offset |-> [x |-> moved[k].offset.x + offset.x,
                            y |-> moved[k].offset.y + offset.y],
                clientRect |->
                  adjustClientRect(moved[k].clientRect, offset.y, offset.x)]]

\* The entries of the cache after that changed place with respect to before.
ChangedPlace(before, after) ==
  {after[k].drag : k \in {j \in 1..Len(after) : after[j].drag # before[j].drag}}

OffsetOf(cache, i) == (CHOOSE e \in Elems(cache) : e.drag = i).offset

\* _sortItem from the search of the item under the pointer on.
SortNear(s, c, item, x, y, pointerDelta) ==
    LET siblings == s._itemPositions[c]
        newIndex == _getItemIndexFromPointerPosition(s, c, item, x, y, pointerDelta)
        currentIndex == findIndex([k \in 1..Len(siblings) |->
                                     siblings[k].drag = item])
    IN IF newIndex = -1 /\ Len(siblings) > 0 THEN s
       ELSE IF currentIndex = -1 \/ newIndex = -1
       THEN Throw(s, "TypeError")    \* siblings[-1] is undefined
       ELSE
         LET siblingAtNewPosition == siblings[newIndex + 1]
             currentPosition == siblings[currentIndex + 1].clientRect
             newPosition == siblingAtNewPosition.clientRect
             delta == IF currentIndex > newIndex THEN 1 ELSE -1
             itemOffset == _getItemOffsetPx(currentPosition, newPosition, delta)
             siblingOffset == _getSiblingOffsetPx(currentIndex, siblings, delta)
             after == OffsetMoved(siblings, currentIndex, newIndex, item,
                                  itemOffset, siblingOffset)
             s1 == [s EXCEPT
                      !._previousSwap[c] =
                         [drag |-> siblingAtNewPosition.drag,
                          delta |-> pointerDelta],
                      !._itemPositions[c] = after,
                      !.sorts = @ + 1,
                      !.placeholderTransform =
                         IF item \in ChangedPlace(siblings, after)
                         THEN OffsetOf(after, item) ELSE @,
                      !.transform =
                         [i \in Items |->
                           IF i # item /\ i \in ChangedPlace(siblings, after)
                           THEN OffsetOf(after, i) ELSE s.transform[i]]]
         IN Emit(s1, [type |-> "sorted", previousIndex |-> newPosition,
                      currentIndex |-> currentPosition, container |-> c,
                      item |-> item])

\* A _sortItem that sorts whether sorting is disabled or not and wherever
\* the pointer is.
_sortItemUnguarded(s, c, item, x, y, pointerDelta) ==
  IF s._clientRect[c] = NoRect THEN Throw(s, "TypeError")
  ELSE SortNear(s, c, item, x, y, pointerDelta)

\* _sortItem(item, pointerX, pointerY, pointerDelta); pointerDelta is the
\* identity of the object passed, which is all the method looks at.
_sortItem(s, c, item, x, y, pointerDelta) ==
  IF s.sortingDisabled[c] THEN s
  ELSE IF s._clientRect[c] = NoRect THEN Throw(s, "TypeError")
  ELSE IF ~_isPointerNearDropContainer(s, c, x, y) THEN s
  ELSE SortNear(s, c, item, x, y, pointerDelta)

\* DragRef._sortFromLastPointerPosition(): the controller sorts the item
\* again at the pointer position and with the direction it remembers.
_sortFromLastPointerPosition(s, c, item, p, delta) ==
  _sortItem(s, c, item, p[1], p[2], delta)

\* The second loop of _updateAfterScroll, from index k on: forEach visits
\* the indexes below the length the array had at the start, and reads each
\* entry when it gets to it.
RECURSIVE ResortDragged(_, _, _, _, _, _)
ResortDragged(s, c, k, length, p, delta) ==
  IF k > length \/ k > Len(s._itemPositions[c]) THEN s
  ELSE IF isDragging(s, s._itemPositions[c][k].drag)
  THEN ResortDragged(
         _sortFromLastPointerPosition(
           [s EXCEPT !.result = @ + 1], c, s._itemPositions[c][k].drag, p, delta),
         c, k + 1, length, p, delta)
  ELSE ResortDragged(s, c, k + 1, length, p, delta)

\* A first loop that shifts the rectangles the other way.
AdjustAllBack(cache, topDifference, leftDifference) ==
  [k \in 1..Len(cache) |->
     [cache[k] EXCEPT !.clientRect =
        adjustClientRect(@, -topDifference, -leftDifference)]]

\* The first loop of _updateAfterScroll.
AdjustAll(cache, topDifference, leftDifference) ==
  [k \in 1..Len(cache) |->
     [cache[k] EXCEPT !.clientRect =
        adjustClientRect(@, topDifference, leftDifference)]]

\* _updateAfterScroll(scrollPosition, newTop, newLeft) of the element scroll;
\* result counts the calls of _sortFromLastPointerPosition.
_updateAfterScroll(s, c, newTop, p, delta) ==
  [ResortDragged(
     [s EXCEPT !._itemPositions[c] =
                  AdjustAll(@, s._scrollPosition[c] - newTop, 0),
               !.result = 0],
     c, 1, Len(s._itemPositions[c]), p, delta)
   EXCEPT !._scrollPosition[c] = newTop]

\* _handleScroll()
_handleScroll(s, c, p, delta) ==
  IF ~s._isDragging[c] THEN s
  ELSE _updateAfterScroll(s, c, s.scrollTop[c], p, delta)

\* The subscriber of the registry's scroll stream that start() sets up
\* (lines 221-227): _updateAfterScroll with the cached scroll position of the
\* viewport and the rectangle of the container as the extra rectangle.
_viewportScrolled(s, c, p, delta) ==
  IF ~s._isDragging[c] THEN s
  ELSE LET topDifference ==
             s._viewportScrollPosition[c].top - s.viewportScroll.top
           leftDifference ==
             s._viewportScrollPosition[c].left - s.viewportScroll.left
       IN [ResortDragged(
             [s EXCEPT !._clientRect[c] =
                          adjustClientRect(@, topDifference, leftDifference),
                       !._itemPositions[c] =
                          AdjustAll(@, topDifference, leftDifference),
                       !.result = 0],
             c, 1, Len(s._itemPositions[c]), p, delta)
           EXCEPT !._viewportScrollPosition[c] = s.viewportScroll]

\* The registry's scroll stream emits: the subscribers run in the order in
\* which the containers were created.
RECURSIVE ScrollEmits(_, _, _, _)
ScrollEmits(s, cs, p, delta) ==
  IF cs = <<>> THEN s
  ELSE ScrollEmits(IF s.viewportSub[Head(cs)]
                     THEN _viewportScrolled(s, Head(cs), p, delta) ELSE s,
                   Tail(cs), p, delta)

\* withItems(items)
withItems(s, c, items) ==
  LET s1 == [s EXCEPT !._draggables[c] = items]
  IN IF s1._isDragging[c] THEN _cacheItems(s1, c) ELSE s1

\* The cdkDropGridEnterPredicate input of the page: Y does not take item b.
enterPredicate(item, c) == ~(c = "Y" /\ item = "b")

\* What document.elementFromPoint can return: nothing, the element of a
\* container, the root element of an item, or an element outside of both.
HitTargets == {"null", "body"} \cup Containers \cup Items

\* A _canReceive that does not ask the enter-predicate.
_canReceiveUnguarded(s, c, item, x, y, hit) ==
  IF ~isInsideClientRect(s._clientRect[c], x, y) THEN FALSE
  ELSE IF hit = "null" THEN FALSE
  ELSE hit = c \/ (hit \in Items /\ hit \in Elems(s.dom[c]))

\* _canReceive(item, x, y); hit is the result of elementFromPoint(x, y).
_canReceive(s, c, item, x, y, hit) ==
  IF ~enterPredicate(item, c) \/ ~isInsideClientRect(s._clientRect[c], x, y)
  THEN FALSE
  ELSE IF hit = "null" THEN FALSE
  ELSE hit = c \/ (hit \in Items /\ hit \in Elems(s.dom[c]))

\* _isOverContainer(x, y)
_isOverContainer(s, c, x, y) == isInsideClientRect(s._clientRect[c], x, y)


\* ------------------------------------------------------------------------
\* Auto-scroll
\* ------------------------------------------------------------------------
\* Size of the viewport reported by the ViewportRuler.
Viewport == [left |-> 0, top |-> 0, width |-> 400, height |-> 400]

\* SCROLL_PROXIMITY_THRESHOLD = 0.05, as a fraction of 100.
SCROLL_PROXIMITY_THRESHOLD == 5

\* getVerticalScrollDirection(clientRect, pointerY)
getVerticalScrollDirection(r, y) ==
  LET yThreshold == r.height * SCROLL_PROXIMITY_THRESHOLD
  IN IF 100 * y >= 100 * r.top - yThreshold /\ 100 * y <= 100 * r.top + yThreshold
     THEN "UP"
     ELSE IF 100 * y >= 100 * Bottom(r) - yThreshold
             /\ 100 * y <= 100 * Bottom(r) + yThreshold
     THEN "DOWN"
     ELSE "NONE"

\* getHorizontalScrollDirection(clientRect, pointerX)
getHorizontalScrollDirection(r, x) ==
  LET xThreshold == r.width * SCROLL_PROXIMITY_THRESHOLD
  IN IF 100 * x >= 100 * r.left - xThreshold /\ 100 * x <= 100 * r.left + xThreshold
     THEN "LEFT"
     ELSE IF 100 * x >= 100 * Right(r) - xThreshold
             /\ 100 * x <= 100 * Right(r) + xThreshold
     THEN "RIGHT"
     ELSE "NONE"

\* A _startScrollInterval that leaves the running interval subscribed.
_startScrollIntervalOnTop(s, c) ==
  [s EXCEPT !.scrollLoops[c] = @ + 1, !.scrollStarted = @ \cup {c}]

\* _startScrollInterval(): the running interval is stopped, a new one starts.
_startScrollInterval(s, c) ==
  [_stopScrolling(s, c) EXCEPT !.scrollLoops[c] = @ + 1,
                               !.scrollStarted = @ \cup {c}]

\* A _startScrollingIfNecessary that starts the interval on every change,
\* with or without a direction.
_startScrollingOnChange(s, c, x, y) ==
  LET vView == getVerticalScrollDirection(Viewport, y)
      hView == getHorizontalScrollDirection(Viewport, x)
      own == vView = "NONE" /\ hView = "NONE"
             /\ _isPointerNearDropContainer(s, c, x, y)
      v == IF own THEN getVerticalScrollDirection(s._clientRect[c], y) ELSE vView
      h == IF own THEN getHorizontalScrollDirection(s._clientRect[c], x) ELSE hView
      node == IF own THEN "element" ELSE "window"
      now == [v |-> v, h |-> h, node |-> node]
  IN IF s.autoScrollDisabled[c] THEN s
     ELSE IF now # s.scrollDir[c]
     THEN _startScrollInterval([s EXCEPT !.scrollDir[c] = now], c)
     ELSE s

\* _startScrollingIfNecessary(pointerX, pointerY)
_startScrollingIfNecessary(s, c, x, y) ==
  LET vView == getVerticalScrollDirection(Viewport, y)
      hView == getHorizontalScrollDirection(Viewport, x)
      own == vView = "NONE" /\ hView = "NONE"
             /\ _isPointerNearDropContainer(s, c, x, y)
      v == IF own THEN getVerticalScrollDirection(s._clientRect[c], y) ELSE vView
      h == IF own THEN getHorizontalScrollDirection(s._clientRect[c], x) ELSE hView
      node == IF own THEN "element" ELSE "window"
      now == [v |-> v, h |-> h, node |-> node]
  IN IF s.autoScrollDisabled[c] THEN s
     ELSE IF now # s.scrollDir[c]
     THEN IF v # "NONE" \/ h # "NONE"
          THEN _startScrollInterval([s EXCEPT !.scrollDir[c] = now], c)
          ELSE _stopScrolling([s EXCEPT !.scrollDir[c] = now], c)
     ELSE s

\* ------------------------------------------------------------------------
\* ResizeRegistry
\* ------------------------------------------------------------------------
\* The resize items of the page.
Resizes == {"r1", "r2"}

\* The events that start a resize: their type decides which listeners are
\* bound.
StartEvents == {"touchstart", "mousedown"}

\* Gestures that bind the shared listeners, counted to tell the closures
\* created by one startResizing from those of another.
MaxBinds == 2

\* The registry after construction, with nothing bound on the document:
\* _globalListeners is a set of [name, handler, capture], listeners is the
\* event listener list of the document, entries [type, handler, capture];
\* call and thrown are the last call and the error it threw; completed holds
\* the subjects of the registry (pointerMove, pointerUp, scroll) that are
\* completed.
NewRegistry ==
  [_dropInstances |-> {}, _resizeInstances |-> {},
   _activeResizeInstances |-> {}, _globalListeners |-> {},
   listeners |-> <<>>, binds |-> 0, completed |-> {},
   call |-> [name |-> "new", arg |-> "none"], thrown |-> "none"]

\* The handler _preventDefaultWhileResizing: one function per registry.
PreventDefault == <<"_preventDefaultWhileResizing", 0>>

\* document.addEventListener(type, handler, options): a listener with the
\* same type, callback and capture flag is not added twice.
addEventListener(list, type, handler, capture) ==
  IF \E k \in 1..Len(list) :
       list[k] = [type |-> type, handler |-> handler, capture |-> capture]
  THEN list
  ELSE Append(list, [type |-> type, handler |-> handler, capture |-> capture])

\* document.removeEventListener(type, handler, options)
removeEventListener(list, type, handler, capture) ==
  SelectSeq(list, LAMBDA l :
    l # [type |-> type, handler |-> handler, capture |-> capture])

\* A registerDropContainer that accepts a registered container in silence.
registerDropContainerQuietly(r, instance) ==
  [r EXCEPT !._dropInstances = @ \cup {instance}]

\* registerDropContainer(drop), the parameter called instance here
registerDropContainer(r, instance) ==
  IF instance \notin r._dropInstances
  THEN [r EXCEPT !._dropInstances = @ \cup {instance}]
  ELSE [r EXCEPT !.thrown = "Error"]

\* removeDropContainer(drop)
removeDropContainer(r, instance) ==
  [r EXCEPT !._dropInstances = @ \ {instance}]

\* _clearGlobalListeners()
_clearGlobalListeners(r) ==
  [r EXCEPT
     !.listeners = SelectSeq(@, LAMBDA l :
        ~\E g \in r._globalListeners :
           l = [type |-> g.name, handler |-> g.handler, capture |-> g.capture]),
     !._globalListeners = {}]

\* stopResizing(resize)
stopResizing(r, resize) ==
  IF r._activeResizeInstances \ {resize} = {}
  THEN _clearGlobalListeners([r EXCEPT !._activeResizeInstances = {}])
  ELSE [r EXCEPT !._activeResizeInstances = @ \ {resize}]

\* A registerResizeItem that binds the touchmove listener with a new
\* function on every call.
registerResizeItemRebinding(r, resize) ==
  [r EXCEPT !._resizeInstances = @ \cup {resize},
            !.listeners = Append(@, [type |-> "touchmove",
                                     handler |-> <<PreventDefault[1],
                                                   Len(@) + 1>>,
                                     capture |-> TRUE])]

\* registerResizeItem(resize)
registerResizeItem(r, resize) ==
  IF Cardinality(r._resizeInstances \cup {resize}) = 1
  THEN [r EXCEPT !._resizeInstances = @ \cup {resize},
                 !.listeners = addEventListener(@, "touchmove",
                                                PreventDefault, TRUE)]
  ELSE [r EXCEPT !._resizeInstances = @ \cup {resize}]

\* The rest of removeResizeItem, after stopResizing(resize).
RemoveStopped(r) ==
  IF r._resizeInstances = {}
  THEN [r EXCEPT !.listeners = removeEventListener(@, "touchmove",
                                                   PreventDefault, TRUE)]
  ELSE r

\* removeResizeItem(resize)
removeResizeItem(r, resize) ==
  RemoveStopped(stopResizing([r EXCEPT !._resizeInstances = @ \ {resize}],
                             resize))

\* The listeners startResizing puts into _globalListeners for an event of
\* the given type; the handlers of move, up and scroll are closures created
\* by the call, numbered by gen.
GlobalListeners(event, gen) ==
  LET isTouchEvent == event = "touchstart"
  IN { [name |-> IF isTouchEvent THEN "touchmove" ELSE "mousemove",
        handler |-> <<"pointerMove", gen>>, capture |-> TRUE],
       [name |-> IF isTouchEvent THEN "touchend" ELSE "mouseup",
        handler |-> <<"pointerUp", gen>>, capture |-> TRUE],
       [name |-> "scroll", handler |-> <<"scroll", gen>>, capture |-> FALSE],
       [name |-> "selectstart", handler |-> PreventDefault, capture |-> TRUE] }

\* _globalListeners.set(name, config) for each of the new entries: an entry of
\* the same name is replaced.
MapSet(map, entries) ==
  {g \in map : ~\E e \in entries : e.name = g.name} \cup entries

\* _globalListeners.forEach((config, name) => addEventListener(...))
RECURSIVE AddAll(_, _)
AddAll(list, configs) ==
  IF configs = {} THEN list
  ELSE LET g == CHOOSE x \in configs : TRUE
       IN AddAll(addEventListener(list, g.name, g.handler, g.capture),
                 configs \ {g})

\* A startResizing without the check for an instance that is active.
startResizingAgain(r, resize, event) ==
  [r EXCEPT
     !._activeResizeInstances = @ \cup {resize},
     !.binds = @ + 1,
     !._globalListeners = GlobalListeners(event, r.binds + 1),
     !.listeners = AddAll(@, GlobalListeners(event, r.binds + 1))]

\* startResizing(resize, event)
startResizing(r, resize, event) ==
  IF resize \in r._activeResizeInstances THEN r
  ELSE IF r._activeResizeInstances = {}
  THEN [r EXCEPT
          !._activeResizeInstances = {resize},
          !.binds = @ + 1,
          !._globalListeners = MapSet(@, GlobalListeners(event, r.binds + 1)),
          !.listeners = AddAll(@, MapSet(r._globalListeners,
                                         GlobalListeners(event, r.binds + 1)))]
  ELSE [r EXCEPT !._activeResizeInstances = @ \cup {resize}]

\* instances.forEach(instance => this.removeResizeItem(instance))
RECURSIVE RemoveAllResizeItems(_, _)
RemoveAllResizeItems(r, instances) ==
  IF instances = {} THEN r
  ELSE LET i == CHOOSE x \in instances : TRUE
       IN RemoveAllResizeItems(removeResizeItem(r, i), instances \ {i})

\* ngOnDestroy()
ngOnDestroy(r) ==
  [_clearGlobalListeners(
     [RemoveAllResizeItems(r, r._resizeInstances) EXCEPT !._dropInstances = {}])
   EXCEPT !.completed = @ \cup {"pointerMove", "pointerUp"}]

\* A call of the registry.
Called(name, arg) ==
  [registry EXCEPT !.call = [name |-> name, arg |-> arg], !.thrown = "none"]

RegisterDropContainer(d) ==
  /\ registry' = registerDropContainer(Called("registerDropContainer", d), d)
  /\ UNCHANGED <<vars, cdkResize>>

RemoveDropContainer(d) ==
  /\ registry' = removeDropContainer(Called("removeDropContainer", d), d)
  /\ UNCHANGED <<vars, cdkResize>>

RegisterResizeItem(i) ==
  /\ registry' = registerResizeItem(Called("registerResizeItem", i), i)
  /\ UNCHANGED <<vars, cdkResize>>

RemoveResizeItem(i) ==
  /\ registry' = removeResizeItem(Called("removeResizeItem", i), i)
  /\ UNCHANGED <<vars, cdkResize>>

\* A resize item starts a gesture; it registered itself when it was created.
StartResizing(i, event) ==
  /\ i \in registry._resizeInstances
  /\ registry._activeResizeInstances # {} \/ registry.binds < MaxBinds
  /\ registry' = startResizing(Called("startResizing", i), i, event)
  /\ UNCHANGED <<vars, cdkResize>>

\* startResizing is called for any resize item, registered or not.
StartResizingAny(i, event) ==
  /\ i \notin registry._activeResizeInstances
  /\ registry._activeResizeInstances # {} \/ registry.binds < MaxBinds
  /\ registry' = startResizing(Called("startResizing", i), i, event)
  /\ UNCHANGED <<vars, cdkResize>>

StopResizing(i) ==
  /\ registry' = stopResizing(Called("stopResizing", i), i)
  /\ UNCHANGED <<vars, cdkResize>>

NgOnDestroy ==
  /\ registry.call.name # "ngOnDestroy"
  /\ registry' = ngOnDestroy(Called("ngOnDestroy", "none"))
  /\ UNCHANGED <<vars, cdkResize>>

NextRegistry ==
  \/ \E d \in Containers : RegisterDropContainer(d)
  \/ \E d \in Containers : RemoveDropContainer(d)
  \/ \E i \in Resizes : RegisterResizeItem(i)
  \/ \E i \in Resizes : RemoveResizeItem(i)
  \/ \E i \in Resizes, event \in StartEvents : StartResizing(i, event)
  \/ \E i \in Resizes : StopResizing(i)
  \/ NgOnDestroy

\* ------------------------------------------------------------------------
\* The operations, as the drag controller and the directive call them
\* ------------------------------------------------------------------------
NoDrag == [item |-> NoItem, initial |-> NoContainer, container |-> NoContainer,
           index |-> -1, nextSibling |-> NoItem, entering |-> NoContainer,
           at |-> <<0, 0>>]

Op(name, c, item, p, arg) ==
  [name |-> name, c |-> c, item |-> item, p |-> p, arg |-> arg]

Gesture == drag.item # NoItem /\ drag.entering = NoContainer
\* ------------------------------------------------------------------------
\* The CdkResize directive (drag-events.ts)
\* ------------------------------------------------------------------------

\* The nodes around a resizable: the element "el" and the comment node
\* "comment" (the anchor of an ng-container) are children of "parent";
\* "parent" and "aside" are children of "page".
Nodes == {"page", "parent", "aside", "el", "comment"}

\* nodeType === ELEMENT_NODE
IsElement(n) == n \in {"page", "parent", "aside", "el"}

parentElement(n) ==
  CASE n \in {"el", "comment"} -> "parent"
    [] n \in {"parent", "aside"} -> "page"
    [] OTHER -> "null"

\* Element.matches: every element carries its own name as its class, and a
\* selector is the name of a class; "none" is a class no element carries.
matches(n, selector) == n = selector

RECURSIVE ClosestFrom(_, _)
ClosestFrom(currentElement, selector) ==
  IF currentElement = "null" THEN "null"
  ELSE IF matches(currentElement, selector) THEN currentElement
  ELSE ClosestFrom(parentElement(currentElement), selector)

getClosestMatchingAncestor(element, selector) ==
  ClosestFrom(parentElement(element), selector)

\* Node.contains: other is the node or one of its descendants.
RECURSIVE contains(_, _)
contains(n, other) ==
  IF other = "null" THEN FALSE
  ELSE IF other = n THEN TRUE
  ELSE contains(n, parentElement(other))

\* The cdkResizeBoundary input: nothing, a selector, or an element.
NoBoundary == [kind |-> "none", of |-> "null"]

\* The directive after its constructor ran on the node element, in an
\* application where isDevMode() answers devMode. _rootElement and
\* _boundaryElement are the nodes installed in the ResizeRef.
NewCdkResize(element, devMode) ==
  [ element             |-> element,
    devMode             |-> devMode,
    rootElementSelector |-> "",
    firstChange         |-> TRUE,
    boundaryElement     |-> NoBoundary,
    _rootElement        |-> "null",
    _boundaryElement    |-> "null",
    call                |-> "constructor",
    thrown              |-> "none" ]

_updateRootElement(r) ==
  LET element == r.element
      rootElement == IF r.rootElementSelector # ""
                       THEN getClosestMatchingAncestor(element,
                                                       r.rootElementSelector)
                       ELSE element
  IN IF rootElement # "null" /\ ~IsElement(rootElement)
       THEN [r EXCEPT !.thrown = "Error"]
       ELSE [r EXCEPT !._rootElement =
               IF rootElement # "null" THEN rootElement ELSE element]

\* The boundary handed to withBoundaryElement, or "throw".
_getBoundaryElement(r) ==
  LET boundary == r.boundaryElement
  IN IF boundary.kind = "none" THEN "null"
     ELSE IF boundary.kind = "selector"
       THEN getClosestMatchingAncestor(r.element, boundary.of)
     ELSE IF r.devMode /\ ~contains(boundary.of, r.element) THEN "throw"
     ELSE boundary.of

\* The subscriber of beforeStarted set up by _syncInputs.
_syncInputsBeforeStarted(r) ==
  LET boundary == _getBoundaryElement(r)
  IN IF boundary = "throw" THEN [r EXCEPT !.thrown = "Error"]
     ELSE [r EXCEPT !._boundaryElement = boundary]

CalledResize(name) == [cdkResize EXCEPT !.call = name, !.thrown = "none"]

CreateResize(element, devMode) ==
  /\ cdkResize.call # "constructor"
  /\ cdkResize' = NewCdkResize(element, devMode)
  /\ UNCHANGED <<vars, registry>>

\* The zone became stable after the view of the directive was initialised.
NgAfterViewInit ==
  /\ cdkResize.call = "constructor"
  /\ cdkResize' = _updateRootElement(CalledResize("_updateRootElement"))
  /\ UNCHANGED <<vars, registry>>

\* The binding of cdkResizeRootElement changed.
NgOnChanges(selector) ==
  /\ selector # cdkResize.rootElementSelector
  /\ cdkResize' =
       IF cdkResize.firstChange
         THEN [CalledResize("ngOnChanges") EXCEPT
                 !.rootElementSelector = selector, !.firstChange = FALSE]
         ELSE _updateRootElement(
                [CalledResize("_updateRootElement") EXCEPT
                   !.rootElementSelector = selector])
  /\ UNCHANGED <<vars, registry>>

SetBoundaryElement(boundary) ==
  /\ boundary # cdkResize.boundaryElement
  /\ cdkResize' = [CalledResize("boundaryElement") EXCEPT
                     !.boundaryElement = boundary]
  /\ UNCHANGED <<vars, registry>>

\* The ResizeRef announces a gesture while it is not dragging.
BeforeStarted ==
  /\ cdkResize.call # "beforeStarted"
  /\ cdkResize' = _syncInputsBeforeStarted(CalledResize("beforeStarted"))
  /\ UNCHANGED <<vars, registry>>

NextResize ==
  \/ \E element \in {"el", "comment"}, devMode \in BOOLEAN :
       CreateResize(element, devMode)
  \/ NgAfterViewInit
  \/ \E selector \in {"", "parent", "aside", "none"} : NgOnChanges(selector)
  \/ \E kind \in {"selector", "element"}, of \in {"parent", "aside"} :
       SetBoundaryElement([kind |-> kind, of |-> of])
  \/ SetBoundaryElement(NoBoundary)
  \/ BeforeStarted



\* The state after construction of a page whose containers X and Y hold
\* the items inX and inY.
InitPage(inX, inY) ==
  /\ _draggables = [c \in Containers |-> IF c = "X" THEN inX ELSE inY]
  /\ dom = [c \in Containers |-> IF c = "X" THEN inX ELSE inY]
  /\ _activeDraggables = [c \in Containers |-> <<>>]
  /\ activeAssigned = [c \in Containers |-> FALSE]
  /\ _itemPositions = [c \in Containers |-> <<>>]
  /\ _isDragging = [c \in Containers |-> FALSE]
  /\ _clientRect = [c \in Containers |-> NoRect]
  /\ _previousSwap = [c \in Containers |-> NoSwap]
  /\ _siblings = [c \in Containers |-> <<>>]
  /\ _activeSiblings = [c \in Containers |-> {}]
  /\ sortingDisabled = [c \in Containers |-> TRUE]
  /\ \E v \in BOOLEAN : cdkSortingDisabled = [c \in Containers |-> v]
  /\ scrollListener = [c \in Containers |-> FALSE]
  /\ viewportSub = [c \in Containers |-> FALSE]
  /\ scrollSubscriptions = [c \in Containers |-> 0]
  /\ scrollLoops = [c \in Containers |-> 0]
  /\ scrollDir = [c \in Containers |->
                   [v |-> "NONE", h |-> "NONE", node |-> "none"]]
  /\ scrollStarted = {}
  /\ autoScrollDisabled = [c \in Containers |-> FALSE]
  /\ cdkAutoScrollDisabled = [c \in Containers |-> FALSE]
  /\ connectedTo = [c \in Containers |-> <<>>]
  /\ _direction = [c \in Containers |-> "ltr"]
  /\ scrollTop = [c \in Containers |-> 0]
  /\ _scrollPosition = [c \in Containers |-> 0]
  /\ viewportScroll = NoScroll
  /\ _viewportScrollPosition = [c \in Containers |-> NoScroll]
  /\ completed = {}
  /\ _dropInstances = Containers
  /\ transform = [i \in Items |-> ZeroOffset]
  /\ placeholderTransform = ZeroOffset
  /\ drag = NoDrag
  /\ sorts = 0
  /\ changes = 0
  /\ op = Op("init", NoContainer, NoItem, <<0, 0>>, 0)
  /\ emitted = <<>>
  /\ cdkEmitted = <<>>
  /\ error = "none"
  /\ result = "none"
  /\ registry = NewRegistry
  /\ cdkResize = NewCdkResize("el", TRUE)

Init == InitPage(<<"a", "b", "c">>, <<"d">>)

ElementAfter(children, i) ==
  LET k == indexOf(children, i)
  IN IF k + 2 <= Len(children) THEN children[k + 2] ELSE NoItem

\* The drag controller starts a drag sequence of item i in its container:
\* the placeholder takes the place of the root element and the container
\* is started.
StartDragging(c, i) ==
  /\ drag.item = NoItem
  /\ i \in Elems(_draggables[c])
  /\ LET s0 == [Cur EXCEPT
                  !.drag = [item |-> i, initial |-> c, container |-> c,
                            index |-> indexOf(_draggables[c], i),
                            nextSibling |-> ElementAfter(dom[c], i),
                            entering |-> NoContainer, at |-> <<0, 0>>],
                  !.sorts = 0,
                  !.placeholderTransform = ZeroOffset,
                  !.op = Op("start", c, i, <<0, 0>>, 0)]
     IN Commit(start(s0, c))

\* A pointer move inside the current container.
SortItem(p, delta) ==
  /\ Gesture
  /\ sorts < MaxSorts
  /\ LET c == drag.container
         s0 == [Cur EXCEPT !.op = Op("_sortItem", c, drag.item, p, delta)]
     IN Commit(_sortItem(s0, c, drag.item, p[1], p[2], delta))

\* A pointer move for which the controller checks the auto-scroll.
StartScrollingIfNecessary(p) ==
  /\ Gesture
  /\ LET c == drag.container
         s0 == [Cur EXCEPT
                  !.op = Op("_startScrollingIfNecessary", c, drag.item, p, 0)]
     IN Commit(_startScrollingIfNecessary(s0, c, p[1], p[2]))

\* A pointer move over another container that can receive the item: the
\* controller takes the item out of its container ...
Exit(n, p) ==
  /\ Gesture
  /\ n # drag.container
  /\ \/ /\ n \in Elems(_siblings[drag.initial])
        /\ \E hit \in HitTargets :
             _canReceive(Cur, n, drag.item, p[1], p[2], hit)
     \/ n = drag.initial /\ _isOverContainer(Cur, n, p[1], p[2])
  /\ LET c == drag.container
         s0 == [Cur EXCEPT
                  !.drag.container = NoContainer,
                  !.drag.entering = n, !.drag.at = p,
                  !.op = Op("exit", c, drag.item, p, 0)]
     IN Commit(exit(s0, c, drag.item))

\* ... and puts it into the new one, within the same pointer event.
Enter ==
  /\ drag.item # NoItem
  /\ drag.entering # NoContainer
  /\ LET n == drag.entering
         s0 == [Cur EXCEPT
                  !.drag.container = n, !.drag.entering = NoContainer,
                  !.sorts = 0,
                  !.op = Op("enter", n, drag.item, drag.at, 0)]
     IN Commit(enter(s0, n, drag.item, drag.at[1], drag.at[2]))

\* The pointer is released: the item is dropped into its current container
\* and the drag sequence ends; the placeholder is destroyed and the root
\* element is put back where it was taken from, in front of the sibling
\* that followed it.
Drop(currentIndex, isPointerOverContainer) ==
  /\ Gesture
  /\ LET c == drag.container
         s0 == [Cur EXCEPT
                  !.op = Op("drop", c, drag.item, <<0, 0>>, currentIndex)]
         s1 == drop(s0, c, drag.item, currentIndex, drag.initial,
                    isPointerOverContainer, ZeroOffset)
     IN Commit([s1 EXCEPT
                  !.drag = NoDrag, !.placeholderTransform = ZeroOffset,
                  !.dom = MovePlaceholder(s1, drag.initial, drag.item,
                            IF \E k \in Containers :
                                 drag.nextSibling \in Elems(s1.dom[k])
                            THEN drag.nextSibling ELSE NoItem)])

\* The content of the directive changed: a member left the container, or an
\* item that is in no container joined it at the end.
NewMembers(c) ==
  {Without(_draggables[c], e) : e \in Elems(_draggables[c]) \ {drag.item}}
  \cup {Append(_draggables[c], i) :
          i \in {j \in Items : /\ Len(_draggables[c]) < MaxItems
                               /\ j # drag.item
                               /\ \A k \in Containers :
                                    j \notin Elems(_draggables[k])}}

WithItems(c, items) ==
  /\ drag.entering = NoContainer
  /\ changes < MaxChanges
  /\ items \in NewMembers(c)
  /\ LET gone == Elems(_draggables[c]) \ Elems(items)
         new == Elems(items) \ Elems(_draggables[c])
         s0 == [Cur EXCEPT
                  !.dom = [k \in Containers |->
                    LET kept == SelectSeq(dom[k], LAMBDA e : e \notin gone)
                    IN IF k = c /\ new # {}
                       THEN Append(kept, CHOOSE e \in new : TRUE) ELSE kept],
                  !.transform = [i \in Items |->
                    IF i \in gone THEN ZeroOffset ELSE transform[i]],
                  !.changes = @ + 1,
                  !.op = Op("withItems", c, NoItem, <<0, 0>>, 0)]
     IN Commit(withItems(s0, c, items))

\* The controller asks a connected container whether it can take the item.
CanReceive(c, p, hit) ==
  /\ Gesture
  /\ c \in Elems(_siblings[drag.initial])
  /\ Commit([Cur EXCEPT
               !.result = _canReceive(Cur, c, drag.item, p[1], p[2], hit),
               !.op = Op("_canReceive", c, drag.item, p, hit)])

\* The steps of a gesture.
GestureStep ==
  \/ \E c \in Containers, i \in Items : StartDragging(c, i)
  \/ \E p \in Points, delta \in DeltaRefs : SortItem(p, delta)
  \/ \E n \in Containers, p \in Points : Exit(n, p)
  \/ Enter
  \/ \E k \in DropIndexes, over \in BOOLEAN : Drop(k, over)

\* Gestures, while the members of the containers may change.
Next ==
  \/ GestureStep
  \/ \E c \in Containers : \E items \in NewMembers(c) : WithItems(c, items)

Spec == Init /\ [][Next]_vars

\* Pointer positions for the auto-scroll: the centre of the viewport, a point
\* near its bottom edge, and the point in the proximity band of X.
ScrollPoints == { <<200, 200>>, <<200, 395>>, <<61, 30>> }

NextScroll ==
  \/ GestureStep
  \/ \E p \in ScrollPoints : StartScrollingIfNecessary(p)

SpecScroll == Init /\ [][NextScroll]_vars


\* ------------------------------------------------------------------------
\* Further specifications
\* ------------------------------------------------------------------------
\* Gestures during which the controller asks the connected containers
\* whether they can take the item.
NextReceive ==
  \/ GestureStep
  \/ \E c \in Containers, p \in Points, hit \in HitTargets : CanReceive(c, p, hit)

SpecReceive == Init /\ [][NextReceive]_vars

\* exit(item) is called on container c although item i is not entered in it.
ExitNotEntered(c, i) ==
  /\ drag.entering = NoContainer
  /\ ~(drag.item = i /\ drag.container = c)
  /\ LET s0 == [Cur EXCEPT !.op = Op("exit, not entered", c, i, <<0, 0>>, 0)]
     IN Commit(exit(s0, c, i))

\* The same call on the DropGridRef of containers/drop-grid-ref.ts.
ExitNotEnteredStub(c, i) ==
  /\ drag.entering = NoContainer
  /\ ~(drag.item = i /\ drag.container = c)
  /\ op.name # "exit, not entered (stub)"
  /\ LET s0 == [Cur EXCEPT
                  !.op = Op("exit, not entered (stub)", c, i, <<0, 0>>, 0)]
     IN Commit(exitStub(s0, c, i))

NextStray ==
  \/ GestureStep
  \/ \E c \in Containers, i \in Items : ExitNotEntered(c, i)
  \/ \E c \in Containers, i \in Items : ExitNotEnteredStub(c, i)

SpecStray == Init /\ [][NextStray]_vars

\* Gestures without a sort, on a page whose container X holds all four
\* items in two rows and whose container Y is empty: the item is taken out
\* of its container and put back.
NextTrip ==
  \/ \E c \in Containers, i \in Items : StartDragging(c, i)
  \/ \E n \in Containers, p \in Points : Exit(n, p)
  \/ Enter
  \/ \E k \in DropIndexes, over \in BOOLEAN : Drop(k, over)

SpecTrip == InitPage(<<"a", "b", "c", "d">>, <<>>) /\ [][NextTrip]_vars

\* Pointer positions for auto-scrolling: the centre of the viewport, its
\* bottom edge at two places, next to the right edge of X, and inside X away
\* from its edges.
AutoPoints ==
  { <<200, 200>>, <<200, 395>>, <<200, 390>>, <<61, 30>>, <<30, 30>> }

\* The cdkDropGridAutoScrollDisabled input of the directives is changed.
SetAutoScrollDisabled(v) ==
  /\ \E c \in Containers : cdkAutoScrollDisabled[c] # v
  /\ Commit([Cur EXCEPT !.cdkAutoScrollDisabled = [c \in Containers |-> v],
                        !.op = Op("autoScrollDisabled", NoContainer, NoItem,
                                  <<0, 0>>, 0)])

\* Gestures with the first item of X, without sorting, the pointer moving to
\* the edges and back.
NextAuto ==
  \/ \E c \in Containers : StartDragging(c, "a")
  \/ \E p \in AutoPoints : StartScrollingIfNecessary(p)
  \/ \E n \in Containers : Exit(n, <<90, 30>>)
  \/ Enter
  \/ \E over \in BOOLEAN : Drop(0, over)
  \/ \E v \in BOOLEAN : SetAutoScrollDisabled(v)

SpecAuto == Init /\ [][NextAuto]_vars

\* The autoScrollDisabled field of the DropGridRef of c is assigned, in or
\* out of a gesture.
AssignAutoScrollDisabled(c, v) ==
  /\ autoScrollDisabled[c] # v
  /\ Commit([Cur EXCEPT !.autoScrollDisabled[c] = v,
                        !.op = Op("autoScrollDisabled", c, NoItem, <<0, 0>>, 0)])

\* Gestures with the first item of X, the pointer moving to the edges and
\* back, during which the flag of the container is assigned.
NextFlag ==
  \/ StartDragging("X", "a")
  \/ \E p \in AutoPoints : StartScrollingIfNecessary(p)
  \/ \E v \in BOOLEAN : AssignAutoScrollDisabled("X", v)
  \/ \E v \in BOOLEAN : SetAutoScrollDisabled(v)
  \/ \E over \in BOOLEAN : Drop(0, over)

SpecFlag == Init /\ [][NextFlag]_vars

\* The layout direction of a container changes (Directionality.change).
WithDirection(c, direction) ==
  /\ _direction[c] # direction
  /\ Commit(withDirection(
              [Cur EXCEPT !.op = Op("withDirection", c, NoItem, <<0, 0>>, 0)],
              c, direction))

\* The index of an item is asked for.
GetItemIndex(c, item) ==
  /\ item \in Items
  /\ Commit([Cur EXCEPT !.result = getItemIndex(Cur, c, item),
                        !.op = Op("getItemIndex", c, item, <<0, 0>>, 0)])

\* Gestures in X with sorting, the pointer inside X and far from it, in
\* either direction, with queries of the index.
NextDirection ==
  \/ \E i \in Items : StartDragging("X", i)
  \/ \E p \in {<<30, 30>>, <<50, 30>>, <<30, 50>>, <<90, 30>>},
        delta \in DeltaRefs : SortItem(p, delta)
  \/ \E direction \in {"ltr", "rtl"} : WithDirection("X", direction)
  \/ \E i \in Items : GetItemIndex("X", i)
  \/ \E k \in DropIndexes, over \in BOOLEAN : Drop(k, over)

SpecDirection == Init /\ [][NextDirection]_vars

\* How far a container element scrolls: by one row of cells.
ScrollTops == {0, Cell.size}

\* The container element of the gesture is scrolled and its scroll listener
\* runs; p and delta are the pointer position and the direction the
\* controller remembers.
HandleScroll(top, p, delta) ==
  /\ Gesture
  /\ scrollListener[drag.container]
  /\ top # scrollTop[drag.container]
  /\ sorts < MaxSorts
  /\ LET c == drag.container
     IN Commit(_handleScroll(
                 [Cur EXCEPT !.scrollTop[c] = top,
                             !.op = Op("_handleScroll", c, drag.item, p, delta)],
                 c, p, delta))

\* Gestures in X with sorting, during which X is scrolled.
NextScrolled ==
  \/ \E i \in Items : StartDragging("X", i)
  \/ \E p \in {<<30, 30>>, <<50, 30>>, <<30, 50>>}, delta \in DeltaRefs :
       SortItem(p, delta)
  \/ \E top \in ScrollTops, p \in {<<30, 30>>, <<50, 30>>, <<30, 50>>},
        delta \in DeltaRefs : HandleScroll(top, p, delta)
  \/ \E k \in DropIndexes, over \in BOOLEAN : Drop(k, over)

SpecScrolled == InitPage(<<"a", "b", "c", "d">>, <<>>) /\ [][NextScrolled]_vars

\* Where the viewport scrolls to: down by one row or right by one column.
ViewportScrolls ==
  {NoScroll, [top |-> Cell.size, left |-> 0], [top |-> 0, left |-> Cell.size]}

\* The viewport is scrolled, in or out of a gesture, and the registry's
\* scroll stream emits.
ViewportScroll(position, p, delta) ==
  /\ position # viewportScroll
  /\ sorts < MaxSorts
  /\ Commit(ScrollEmits(
              [Cur EXCEPT !.viewportScroll = position,
                          !.op = Op("viewportScroll", drag.container, drag.item,
                                    p, delta)],
              <<"X", "Y">>, p, delta))

\* The element of container c is scrolled, in or out of a gesture; its scroll
\* listener runs if it is bound.
ScrollElement(c, top, p, delta) ==
  /\ top # scrollTop[c]
  /\ sorts < MaxSorts
  /\ LET s0 == [Cur EXCEPT !.scrollTop[c] = top,
                           !.op = Op("scroll", c, drag.item, p, delta)]
     IN Commit(IF s0.scrollListener[c] THEN _handleScroll(s0, c, p, delta)
               ELSE s0)

\* Gestures in X with sorting, during and between which the viewport and the
\* elements of the containers are scrolled.
NextViewport ==
  \/ \E i \in {"a", "c"} : StartDragging("X", i)
  \/ \E p \in {<<30, 30>>, <<30, 50>>}, delta \in DeltaRefs : SortItem(p, delta)
  \/ \E position \in ViewportScrolls, p \in {<<30, 30>>, <<30, 50>>} :
       ViewportScroll(position, p, 1)
  \/ \E c \in Containers, top \in ScrollTops, p \in {<<30, 30>>, <<30, 50>>} :
       ScrollElement(c, top, p, 1)
  \/ \E over \in BOOLEAN : Drop(0, over)

SpecViewport == Init /\ [][NextViewport]_vars

\* CdkDropGrid.ngOnDestroy: the directive of a container is destroyed and
\* disposes of its DropGridRef, in or out of a gesture.
Dispose(c) ==
  /\ c \notin completed
  /\ Commit(dispose([Cur EXCEPT !.op = Op("dispose", c, drag.item, <<0, 0>>, 0)],
                    c))

\* Gestures with the first item of X, during or after which containers are
\* destroyed; a gesture goes on after its container was destroyed, none
\* starts in a destroyed container.
NextDispose ==
  \/ \E c \in Containers \ completed : StartDragging(c, "a")
  \/ \E p \in {<<50, 30>>, <<30, 50>>}, delta \in DeltaRefs : SortItem(p, delta)
  \/ StartScrollingIfNecessary(<<200, 395>>)
  \/ \E n \in Containers : Exit(n, <<90, 30>>)
  \/ Enter
  \/ \E over \in BOOLEAN : Drop(0, over)
  \/ \E c \in Containers : Dispose(c)

SpecDispose == Init /\ [][NextDispose]_vars

\* Values of the cdkDropGridConnectedTo input of X: nothing, Y, Y by
\* reference and by id, an id that no container has, and X itself with Y.
ConnectedLists ==
  { <<>>, <<"Y">>, <<"#Y", "Y">>, <<"#Z">>, <<"X", "#Y">> }

\* The cdkDropGridConnectedTo input of a directive is changed.
SetConnectedTo(c, list) ==
  /\ connectedTo[c] # list
  /\ Commit([Cur EXCEPT !.connectedTo[c] = list,
                        !.op = Op("connectedTo", c, NoItem, <<0, 0>>, 0)])

\* connectedTo(siblings) is called on the DropGridRef of c, in or out of a
\* gesture.
ConnectedTo(c, siblings) ==
  /\ _siblings[c] # siblings
  /\ Commit(ConnectTo([Cur EXCEPT !.op = Op("connectedTo", c, NoItem,
                                            <<0, 0>>, 0)],
                      c, siblings))

\* Gestures with the first item of a container, during and between which
\* the siblings of the containers are set.
NextSiblings ==
  \/ \E c \in Containers, i \in {"a", "d"} : StartDragging(c, i)
  \/ \E c \in Containers : ConnectedTo(c, <<>>)
  \/ \E c \in Containers : ConnectedTo(c, <<CHOOSE k \in Containers : k # c>>)
  \/ \E n \in Containers, p \in {<<90, 30>>, <<30, 30>>} : Exit(n, p)
  \/ Enter
  \/ \E over \in BOOLEAN : Drop(0, over)

SpecSiblings == Init /\ [][NextSiblings]_vars

\* start() is called again on the container of the gesture.
StartAgain ==
  /\ Gesture
  /\ op.name # "start again"
  /\ Commit(start([Cur EXCEPT !.op = Op("start again", drag.container,
                                        drag.item, <<0, 0>>, 0)],
                  drag.container))

\* enter(item, x, y) is called again on the container the item is in.
EnterAgain(p) ==
  /\ Gesture
  /\ op.name # "enter again"
  /\ Commit(enter([Cur EXCEPT !.op = Op("enter again", drag.container,
                                        drag.item, p, 0)],
                  drag.container, drag.item, p[1], p[2]))

\* Gestures with the first item of a container, during which the container
\* is started and entered again.
NextListeners ==
  \/ \E c \in Containers, i \in {"a", "d"} : StartDragging(c, i)
  \/ StartAgain
  \/ \E p \in {<<30, 30>>, <<50, 30>>} : EnterAgain(p)
  \/ \E n \in Containers, p \in {<<90, 30>>, <<30, 30>>} : Exit(n, p)
  \/ Enter
  \/ \E over \in BOOLEAN : Drop(0, over)

SpecListeners == Init /\ [][NextListeners]_vars

\* Gestures that start in X or enter it, between changes of its connections
\* and the destruction of Y.
NextConnect ==
  \/ \E c \in Containers \ completed, i \in {"a", "d"} : StartDragging(c, i)
  \/ \E list \in ConnectedLists : SetConnectedTo("X", list)
  \/ \E n \in Containers \ completed : Exit(n, <<90, 30>>)
  \/ \E n \in Containers \ completed : Exit(n, <<30, 30>>)
  \/ Enter
  \/ \E over \in BOOLEAN : Drop(0, over)
  \/ Dispose("Y")

SpecConnect == Init /\ [][NextConnect]_vars

\* The element of a container without a gesture is scrolled: it has no
\* scroll listener, and its cached scroll position stays as it was.
ScrollIdle(c, top) ==
  /\ ~scrollListener[c]
  /\ top # scrollTop[c]
  /\ Commit([Cur EXCEPT !.scrollTop[c] = top,
                        !.op = Op("scroll", c, NoItem, <<0, 0>>, 0)])

\* A connected container tells container c that a gesture started in it.
StartReceiving(c, sibling) ==
  /\ c # sibling
  /\ Commit(_startReceiving(
              [Cur EXCEPT !.op = Op("_startReceiving", c, NoItem, <<0, 0>>,
                                    sibling)],
              c, sibling))

\* A connected container tells container c that its gesture ended.
StopReceiving(c, sibling) ==
  /\ c # sibling
  /\ Commit(_stopReceiving(
              [Cur EXCEPT !.op = Op("_stopReceiving", c, NoItem, <<0, 0>>,
                                    sibling)],
              c, sibling))

\* Gestures with the first item of X, and containers that are told of
\* gestures once, twice or not at all, and are scrolled in between.
NextReceiving ==
  \/ \E c \in Containers : StartDragging(c, "a")
  \/ \E c \in Containers, top \in ScrollTops : ScrollIdle(c, top)
  \/ \E c, sibling \in Containers : StartReceiving(c, sibling)
  \/ \E c, sibling \in Containers : StopReceiving(c, sibling)
  \/ \E n \in Containers : Exit(n, <<90, 30>>)
  \/ Enter
  \/ \E over \in BOOLEAN : Drop(0, over)

SpecReceiving == Init /\ [][NextReceiving]_vars

\* Gestures with sorting and transfers during which the members of a
\* container change.
NextRecache ==
  \/ \E c \in Containers, i \in {"a", "c"} : StartDragging(c, i)
  \/ \E p \in {<<50, 30>>, <<30, 50>>}, delta \in DeltaRefs : SortItem(p, delta)
  \/ \E n \in Containers, p \in {<<90, 30>>, <<30, 50>>} : Exit(n, p)
  \/ Enter
  \/ \E c \in Containers : \E items \in NewMembers(c) : WithItems(c, items)
  \/ \E over \in BOOLEAN : Drop(0, over)

SpecRecache == InitPage(<<"a", "b", "c", "d">>, <<>>) /\ [][NextRecache]_vars

\* The registry alone: its callers register, start, stop and remove in any
\* order.
SpecRegistry == Init /\ [][NextRegistry]_<<vars, registry, cdkResize>>

\* The four calls of the registry about resize items, in any order.
NextCalls ==
  \/ \E i \in Resizes : RegisterResizeItem(i)
  \/ \E i \in Resizes : RemoveResizeItem(i)
  \/ \E i \in Resizes, event \in StartEvents : StartResizingAny(i, event)
  \/ \E i \in Resizes : StopResizing(i)

SpecCalls == Init /\ [][NextCalls]_<<vars, registry, cdkResize>>

\* The directive alone: it is created, initialised, rebound and started in
\* any order.
SpecResize == Init /\ [][NextResize]_<<vars, registry, cdkResize>>

\* ------------------------------------------------------------------------
\* Properties
\* ------------------------------------------------------------------------
\* The items of a position cache, in cache order.
Drags(cache) == [k \in 1..Len(cache) |-> cache[k].drag]

SortedEvents == SelectSeq(emitted, LAMBDA e : e.type = "sorted")

\* The pointer lies within the rectangle (edges included).
Covers(r, p) ==
  /\ r.left <= p[1] /\ p[1] <= r.left + r.width
  /\ r.top <= p[2] /\ p[2] <= r.top + r.height

\* Index of the first sibling of item a in the cache whose rectangle covers
\* the pointer, -1 if none.
FirstSiblingUnder(cache, a, p) ==
  LET under == {k \in 1..Len(cache) :
                  cache[k].drag # a /\ Covers(cache[k].clientRect, p)}
  IN IF under = {} THEN -1
     ELSE (CHOOSE k \in under : \A j \in under : k <= j) - 1

\* The same, passing over the sibling of the last swap when the pointer
\* direction object is the one of that swap.
FirstFreshSiblingUnder(cache, a, p, swap, delta) ==
  LET under == {k \in 1..Len(cache) :
                  /\ cache[k].drag # a
                  /\ ~(cache[k].drag = swap.drag /\ delta = swap.delta)
                  /\ Covers(cache[k].clientRect, p)}
  IN IF under = {} THEN -1
     ELSE (CHOOSE k \in under : \A j \in under : k <= j) - 1

\* The pointer is within the proximity band of the cached container rectangle.
InBand(r, p) ==
  /\ 20 * p[1] > 20 * r.left - r.width /\ 20 * p[1] < 20 * (r.left + r.width) + r.width
  /\ 20 * p[2] > 20 * r.top - r.height /\ 20 * p[2] < 20 * (r.top + r.height) + r.height

\* The item a stands at index n of after, and the other items are in the
\* order they had in before.
MovedTo(before, after, a, n) ==
  /\ Len(after) = Len(before)
  /\ after[n + 1] = a
  /\ Without(after, a) = Without(before, a)

\* C1 (as stated): whenever _sortItem is called for the dragged item a with
\* sorting enabled and the pointer over a sibling b, a is moved to the index
\* of b in the cache, the other items keep their order, and exactly one
\* sorted event is emitted.
C1_SortMovesToSiblingUnderPointer ==
  [][ LET c == op'.c
          a == op'.item
          cache == _itemPositions[c]
          n == FirstSiblingUnder(cache, a, op'.p)
      IN (op'.name = "_sortItem" /\ ~sortingDisabled[c]
          /\ a \in Elems(Drags(cache)) /\ n >= 0)
         => /\ MovedTo(Drags(cache), Drags(_itemPositions'[c]), a, n)
            /\ Len(SortedEvents') = 1 ]_vars

\* C1 (amended): the same, for the first sibling under the pointer that is
\* not the sibling of the last swap made with the same pointer-direction
\* object, and with the pointer within the proximity band of the container.
C1_SortMovesToFreshSibling ==
  [][ LET c == op'.c
          a == op'.item
          cache == _itemPositions[c]
          n == FirstFreshSiblingUnder(cache, a, op'.p, _previousSwap[c], op'.arg)
      IN (op'.name = "_sortItem" /\ ~sortingDisabled[c]
          /\ InBand(_clientRect[c], op'.p)
          /\ a \in Elems(Drags(cache)) /\ n >= 0)
         => /\ MovedTo(Drags(cache), Drags(_itemPositions'[c]), a, n)
            /\ Len(SortedEvents') = 1 ]_vars

\* C1 witness: a was dragged over a sibling two places away in the cache
\* [a, c, b] of X and now stands in its place, with one sorted event.
C1_Witness ==
  /\ op.name = "_sortItem" /\ op.item = "a" /\ op.c = "X"
  /\ Drags(_itemPositions["X"]) = <<"c", "b", "a">>
  /\ Len(SortedEvents) = 1

\* C2: the sorted event of _sortItem carries as previousIndex the position
\* the dragged item had before the move and as currentIndex the position it
\* has after the move, and the directive forwards both as they are. The
\* position is taken as the event has it, as the cached rectangle of the
\* place.
C2_SortedEventIndices ==
  [][ LET c == op'.c
          a == op'.item
          cache == _itemPositions[c]
          from == indexOf(Drags(cache), a)
          to == indexOf(Drags(_itemPositions'[c]), a)
      IN (op'.name = "_sortItem" /\ Len(SortedEvents') > 0)
         => /\ SortedEvents'[1].previousIndex = cache[from + 1].clientRect
            /\ SortedEvents'[1].currentIndex = cache[to + 1].clientRect
            /\ \E k \in 1..Len(cdkEmitted') :
                 /\ cdkEmitted'[k].type = "sorted"
                 /\ cdkEmitted'[k].previousIndex = SortedEvents'[1].previousIndex
                 /\ cdkEmitted'[k].currentIndex = SortedEvents'[1].currentIndex
    ]_vars

C4_SortIndicesValid ==
  op.name = "_sortItem" => error = "none"


\* C5: _canReceive(item, x, y) is true exactly when the enter-predicate
\* accepts the item for the container, the point lies in the cached
\* rectangle of the container, and the element at the point is the element
\* of the container or a child of it; it is false, and no error is raised,
\* when there is no element at the point.
C5_CanReceive ==
  op.name = "_canReceive" =>
    LET c == op.c
        hit == op.arg
    IN /\ error = "none"
       /\ result = (/\ enterPredicate(op.item, c)
                    /\ Covers(_clientRect[c], op.p)
                    /\ hit # "null"
                    /\ (hit = c \/ \E k \in 1..Len(dom[c]) : dom[c][k] = hit))

\* C5 witness: a connected container answers that it can take the item.
C5_Witness ==
  op.name = "_canReceive" /\ result = TRUE /\ op.c # drag.initial

\* C6: drop(item, index, previousContainer, ...) on a container emits one
\* dropped event, of that container, with the previousContainer and the
\* currentIndex that were passed, and the directive forwards it with the
\* same values.
C6_DroppedEvent ==
  [][ op'.name = "drop" =>
        /\ Len(emitted') = 1
        /\ emitted'[1].type = "dropped"
        /\ emitted'[1].container = drag.container
        /\ emitted'[1].previousContainer = drag.initial
        /\ emitted'[1].currentIndex = op'.arg
        /\ emitted'[1].item = drag.item
        /\ Len(cdkEmitted') = 1
        /\ cdkEmitted'[1].type = "dropped"
        /\ cdkEmitted'[1].container = drag.container
        /\ cdkEmitted'[1].previousContainer = drag.initial
        /\ cdkEmitted'[1].currentIndex = op'.arg
    ]_vars

\* C6 witness: an item of X was dropped into Y at index 2.
C6_Witness ==
  /\ op.name = "drop" /\ op.c = "Y" /\ op.arg = 2
  /\ Len(emitted) = 1
  /\ emitted[1].container = "Y" /\ emitted[1].previousContainer = "X"
  /\ emitted[1].currentIndex = 2

\* C7: the previousIndex of a dropped event is the index the item had in
\* the container it was picked up from, at the time it was picked up.
C7_PreviousIndexAtPickUp ==
  [][ (op'.name = "drop" /\ Len(emitted') > 0)
        => emitted'[1].previousIndex = drag.index ]_vars

\* The members of container c, other than the item, whose rectangle on the
\* page covers the point when enter is called.
MembersUnder(c, item, p) ==
  {m \in Elems(_draggables[c]) \ {item} : Covers(getMutableClientRect(Cur, m), p)}

\* C8: with sorting enabled, or for an item that is not a declared member
\* of the container, enter(item, x, y) puts the item into the active list
\* immediately before the member whose rectangle covers the pointer, and at
\* the end of the active list when no member's rectangle covers it; the
\* other members stay in their order.
C8_EnterInsertsAtPointer ==
  [][ LET c == op'.c
          a == op'.item
          under == MembersUnder(c, a, op'.p)
          after == _activeDraggables'[c]
      IN (op'.name = "enter" /\ error' = "none"
          /\ (~sortingDisabled'[c] \/ a \notin Elems(_draggables[c])))
         => /\ Without(after, a) = Without(_draggables[c], a)
            /\ \A m \in under : indexOf(after, m) = indexOf(after, a) + 1
            /\ under = {} => after[Len(after)] = a
    ]_vars

\* C9: after exit(item) the container is not dragging, its active list and
\* its position cache are empty, the last swap is forgotten, no item is
\* displaced, no scroll interval runs, the scroll listener and the viewport
\* subscription are removed, no connected container receives from it, and
\* one exited event was emitted.
C9_ExitResets ==
  op.name = "exit" =>
    LET c == op.c
    IN /\ error = "none"
       /\ ~_isDragging[c]
       /\ _activeDraggables[c] = <<>>
       /\ _itemPositions[c] = <<>>
       /\ _previousSwap[c] = [drag |-> NoItem, delta |-> 0]
       /\ \A i \in Items : transform[i] = [x |-> 0, y |-> 0]
       /\ scrollLoops[c] = 0
       /\ ~scrollListener[c]
       /\ ~viewportSub[c]
       /\ \A k \in Containers : c \notin _activeSiblings[k]
       /\ emitted = <<[type |-> "exited", item |-> op.item, container |-> c]>>

\* C9 witness: the item leaves a container in which it was sorted and in
\* which the auto-scroll had been started towards the bottom.
C9_Witness ==
  /\ op.name = "exit" /\ sorts > 0
  /\ scrollDir[op.c].v = "DOWN"
  /\ Len(emitted) = 1

\* C10: exit(item) on a container in which the item is not entered raises
\* no error, emits nothing and leaves the state of the container as it was.
C10_StrayExitIsNoOp ==
  [][ (op'.name = "exit, not entered" \/ op'.name = "exit, not entered (stub)")
        => /\ error' = "none"
           /\ emitted' = <<>>
           /\ UNCHANGED << _draggables, _activeDraggables, _itemPositions,
                           _isDragging, _clientRect, _previousSwap,
                           _activeSiblings, scrollListener, viewportSub,
                           scrollLoops, transform >>
    ]_vars


\* C11: when an item that was taken out of its container comes back into
\* it at the place it was picked up from, without a sort in between, it is
\* at its original index again, in the active list and among the elements
\* of the container, and no item, placeholder or cache entry carries an
\* offset.
C11_RoundTrip ==
  (/\ op.name = "enter" /\ op.c = drag.initial /\ error = "none"
   /\ Covers(SlotRect(drag.initial, drag.index), op.p))
  => /\ indexOf(_activeDraggables[op.c], op.item) = drag.index
     /\ indexOf(dom[op.c], op.item) = drag.index
     /\ \A i \in Items : transform[i] = [x |-> 0, y |-> 0]
     /\ placeholderTransform = [x |-> 0, y |-> 0]
     /\ \A k \in 1..Len(_itemPositions[op.c]) :
          _itemPositions[op.c][k].offset = [x |-> 0, y |-> 0]

\* The listeners of the document that serve a gesture: all but the touchmove
\* prevention listener.
GestureListeners ==
  {k \in 1..Len(registry.listeners) :
     registry.listeners[k] # [type |-> "touchmove", handler |-> PreventDefault,
                              capture |-> TRUE]}

\* The listeners of the document bound for one of the given event types.
BoundFor(types) ==
  {k \in GestureListeners : registry.listeners[k].type \in types}

C13_DuplicateRegistration ==
  [][registry'.call.name = "registerDropContainer" =>
       IF registry'.call.arg \in registry._dropInstances
       THEN /\ registry'.thrown = "Error"
            /\ registry'._dropInstances = registry._dropInstances
       ELSE /\ registry'.thrown = "none"
            /\ registry'._dropInstances =
                 registry._dropInstances \cup {registry'.call.arg}]_registry

\* C13 happens: a registered container was registered again and the call
\* threw.
C13_Witness ==
  /\ registry.call.name = "registerDropContainer"
  /\ registry.thrown = "Error"
  /\ registry.call.arg \in registry._dropInstances

\* The touchmove listeners of the document that prevent the default action.
PreventionListeners ==
  {k \in 1..Len(registry.listeners) :
     /\ registry.listeners[k].type = "touchmove"
     /\ registry.listeners[k].handler[1] = PreventDefault[1]}

\* C14: while a resize item is registered, from the first registration on,
\* the document holds the touchmove prevention listener, and holds it once:
\* no later registerResizeItem adds another.
C14_TouchMovePrevention ==
  /\ Cardinality(PreventionListeners) <= 1
  /\ registry._resizeInstances # {} => Cardinality(PreventionListeners) = 1

\* C14 happens: a second item was registered after the first, and a gesture
\* has been started and stopped since the listener was installed.
C14_Witness ==
  /\ registry.call.name = "registerResizeItem"
  /\ Cardinality(registry._resizeInstances) = 2
  /\ registry.binds > 0
  /\ registry._activeResizeInstances = {}
  /\ Cardinality(PreventionListeners) = 1

\* The pointer is within the threshold of an edge at position edge of a
\* rectangle of the given extent: 5 percent of the extent on either side.
NearEdge(v, edge, extent) ==
  /\ 100 * v >= 100 * edge - 5 * extent
  /\ 100 * v <= 100 * edge + 5 * extent

\* The pointer is near the top or the bottom edge, the left or the right edge
\* of a rectangle.
NearVertical(r, y) ==
  NearEdge(y, r.top, r.height) \/ NearEdge(y, r.top + r.height, r.height)

NearHorizontal(r, x) ==
  NearEdge(x, r.left, r.width) \/ NearEdge(x, r.left + r.width, r.width)

\* The last operation was _startScrollingIfNecessary on a container with
\* auto-scroll enabled.
AutoScrolls ==
  /\ op.name = "_startScrollingIfNecessary"
  /\ ~autoScrollDisabled[op.c]

\* C15: after _startScrollingIfNecessary with auto-scroll enabled and the
\* pointer within the threshold of the bottom edge of the viewport (and not
\* of its top, left or right edge) one scroll loop runs, downwards; after a
\* call with the pointer at the centre of the viewport none runs.
C15_BottomEdgeScrolls ==
  AutoScrolls =>
    /\ (/\ NearEdge(op.p[2], Viewport.height, Viewport.height)
        /\ ~NearHorizontal(Viewport, op.p[1]))
       => /\ scrollLoops[op.c] = 1
          /\ scrollDir[op.c].v = "DOWN"
          /\ scrollDir[op.c].h = "NONE"
    /\ op.p = <<200, 200>> => scrollLoops[op.c] = 0

\* The pointer is strictly between the thresholds of the edges of a
\* rectangle on both axes.
BetweenThresholds(r, x, y) ==
  /\ 100 * x > 100 * r.left + 5 * r.width
  /\ 100 * x < 100 * (r.left + r.width) - 5 * r.width
  /\ 100 * y > 100 * r.top + 5 * r.height
  /\ 100 * y < 100 * (r.top + r.height) - 5 * r.height

\* The pointer is within the proximity band of a container rectangle: inside
\* the rectangle grown by 5 percent of its extent on every side.
NearContainer(r, x, y) ==
  /\ 100 * x > 100 * r.left - 5 * r.width
  /\ 100 * x < 100 * (r.left + r.width) + 5 * r.width
  /\ 100 * y > 100 * r.top - 5 * r.height
  /\ 100 * y < 100 * (r.top + r.height) + 5 * r.height

\* C16: after _startScrollingIfNecessary with the pointer strictly between
\* the thresholds on both axes, of the viewport and of the container if the
\* pointer is near it, the direction is NONE on both axes and no scroll loop
\* runs.
C16_NoneBetweenThresholds ==
  (/\ AutoScrolls
   /\ BetweenThresholds(Viewport, op.p[1], op.p[2])
   /\ \/ BetweenThresholds(_clientRect[op.c], op.p[1], op.p[2])
      \/ ~NearContainer(_clientRect[op.c], op.p[1], op.p[2]))
  => /\ scrollDir[op.c].v = "NONE"
     /\ scrollDir[op.c].h = "NONE"
     /\ scrollLoops[op.c] = 0

\* C16 happens: the pointer is inside X, away from its edges and from those
\* of the viewport, in a gesture that scrolled before.
C16_Witness ==
  /\ AutoScrolls
  /\ op.c = "X"
  /\ op.p = <<30, 30>>
  /\ scrollDir["X"].node = "element"
  /\ scrollLoops["X"] = 0

\* C17: a container never has more than one scroll loop; a call of
\* _startScrollingIfNecessary that resolves another node or direction pair
\* than the active one leaves one loop, newly started, if there is a
\* direction and none if there is not; a call that resolves the pair of the
\* running loop leaves that loop running and starts none.
C17_OneScrollLoop ==
  [][/\ \A c \in Containers : scrollLoops'[c] <= 1
     /\ (op'.name = "_startScrollingIfNecessary"
         /\ ~autoScrollDisabled'[op'.c])
        => /\ scrollDir'[op'.c] # scrollDir[op'.c]
              => IF scrollDir'[op'.c].v # "NONE" \/ scrollDir'[op'.c].h # "NONE"
                 THEN scrollLoops'[op'.c] = 1 /\ op'.c \in scrollStarted'
                 ELSE scrollLoops'[op'.c] = 0 /\ op'.c \notin scrollStarted'
           /\ (scrollDir'[op'.c] = scrollDir[op'.c] /\ scrollLoops[op'.c] = 1)
              => scrollLoops'[op'.c] = 1 /\ op'.c \notin scrollStarted']_vars

\* C17 happens: the pointer moved along the bottom edge while the down loop
\* was running, and the loop runs on without a new start.
C17_Witness ==
  /\ AutoScrolls
  /\ op.p = <<200, 390>>
  /\ scrollDir[op.c].v = "DOWN"
  /\ scrollLoops[op.c] = 1
  /\ scrollStarted = {}

\* C18: after _startScrollingIfNecessary the scrolled node is the container
\* element exactly when the pointer is near no edge of the viewport and
\* within the proximity band of the container, and the viewport otherwise;
\* the directions are those of the edges of the node's rectangle.
C18_ViewportFirst ==
  AutoScrolls =>
    LET own == /\ ~NearVertical(Viewport, op.p[2])
               /\ ~NearHorizontal(Viewport, op.p[1])
               /\ NearContainer(_clientRect[op.c], op.p[1], op.p[2])
        r == IF own THEN _clientRect[op.c] ELSE Viewport
    IN /\ scrollDir[op.c].node = IF own THEN "element" ELSE "window"
       /\ scrollDir[op.c].v # "NONE" <=> NearVertical(r, op.p[2])
       /\ scrollDir[op.c].h # "NONE" <=> NearHorizontal(r, op.p[1])

\* C18 happens: the pointer is next to the right edge of X, far from the
\* edges of the viewport, and X scrolls to the right.
C18_Witness ==
  /\ AutoScrolls
  /\ op.c = "X"
  /\ op.p = <<61, 30>>
  /\ scrollDir["X"] = [v |-> "NONE", h |-> "RIGHT", node |-> "element"]
  /\ scrollLoops["X"] = 1

\* C19: after dispose a container is not among the drop containers of the
\* registry and its subjects are completed, and no operation on a container
\* that has left the registry delivers an event of it, from the DropGridRef
\* or from its directive.
C19_DisposedIsSilent ==
  /\ op.name = "dispose" => op.c \notin _dropInstances /\ op.c \in completed
  /\ \A c \in Containers \ _dropInstances :
       /\ \A k \in 1..Len(emitted) : emitted[k].container # c
       /\ \A k \in 1..Len(cdkEmitted) : cdkEmitted[k].container # c

\* C19 happens: an item was dropped into a container that was disposed of
\* during the gesture.
C19_Witness ==
  /\ op.name = "drop"
  /\ op.c \in completed
  /\ error = "none"
  /\ emitted = <<>>

\* C20: after dispose of a container with a gesture in it, the container has
\* no scroll listener, no viewport subscription and no scroll loop, no item
\* has a transform, and no connected sibling has the container as active.
C20_DisposeLeavesNothing ==
  (op.name = "dispose" /\ _isDragging[op.c])
  => /\ ~scrollListener[op.c]
     /\ ~viewportSub[op.c]
     /\ scrollLoops[op.c] = 0
     /\ \A i \in Items : transform[i] = ZeroOffset
     /\ \A k \in 1..Len(_siblings[op.c]) :
          op.c \notin _activeSiblings[_siblings[op.c][k]]

\* The items of a position cache, in its order.
CacheOrder(cache) == [k \in 1..Len(cache) |-> cache[k].drag]

\* C21: the scroll callback leaves the order of the position cache as it
\* found it: the re-sort it triggers does not reorder the cache while the
\* callback iterates over it.
C21_NoReorderWhileIterating ==
  [][op'.name = "_handleScroll" =>
       CacheOrder(_itemPositions'[op'.c]) = CacheOrder(_itemPositions[op'.c])]_vars

\* The place of an item in a sequence of items, counted from 0, -1 if it is
\* not in it.
PlaceIn(seq, item) ==
  IF \E k \in 1..Len(seq) : seq[k] = item
  THEN (CHOOSE k \in 1..Len(seq) :
          seq[k] = item /\ \A j \in 1..(k - 1) : seq[j] # item) - 1
  ELSE -1

\* The place of an item counted from the other end.
PlaceFromEnd(seq, item) ==
  IF PlaceIn(seq, item) = -1 THEN -1 ELSE Len(seq) - 1 - PlaceIn(seq, item)

\* C22: getItemIndex returns the place of the item among the declared
\* members when no gesture is active in the container, and its place in the
\* position cache, counted from the other end in rtl, when one is;
\* withDirection changes neither the position cache nor the active list.
C22_IndexInterpretation ==
  [][/\ op'.name = "getItemIndex" =>
          result' =
            IF ~_isDragging[op'.c] THEN PlaceIn(_draggables[op'.c], op'.item)
            ELSE IF _direction[op'.c] = "rtl"
            THEN PlaceFromEnd(CacheOrder(_itemPositions[op'.c]), op'.item)
            ELSE PlaceIn(CacheOrder(_itemPositions[op'.c]), op'.item)
     /\ op'.name = "withDirection" =>
          /\ _itemPositions' = _itemPositions
          /\ _activeDraggables' = _activeDraggables
          /\ _draggables' = _draggables]_vars

\* C22 happens: in rtl, during a gesture that has sorted, the index of an
\* item is not its place from the left of the cache nor its declared place.
C22_Witness ==
  /\ op.name = "getItemIndex"
  /\ _isDragging[op.c]
  /\ _direction[op.c] = "rtl"
  /\ sorts > 0
  /\ result >= 0
  /\ result # PlaceIn(CacheOrder(_itemPositions[op.c]), op.item)
  /\ result # PlaceIn(_draggables[op.c], op.item)

\* The last operation started a gesture in its container: beforeStarted was
\* emitted.
Started ==
  /\ op.name \in {"start", "enter"}
  /\ \E k \in 1..Len(emitted) :
       emitted[k] = [type |-> "beforeStarted", container |-> op.c]

\* The containers a directive is connected to: those it names, by reference
\* or by the id of a live directive, and the live directives of its group.
Connected(c) ==
  {d \in Containers \ completed :
     \E k \in 1..Len(connectedTo[c]) :
       connectedTo[c][k] = d \/ connectedTo[c][k] = IdOf(d)}
  \cup {d \in Containers : \E k \in 1..Len(connectedTo[c]) : connectedTo[c][k] = d}
  \cup (Containers \ completed)

\* C23: when a gesture starts in a container its siblings are the connected
\* containers and those of its group, without the container itself, without
\* an unresolved id, and each of them once.
C23_SiblingsSynced ==
  Started =>
    /\ Elems(_siblings[op.c]) = Connected(op.c) \ {op.c}
    /\ \A j, k \in 1..Len(_siblings[op.c]) :
         _siblings[op.c][j] = _siblings[op.c][k] => j = k

\* C24: _startReceiving for a sibling that is in the receiving set and
\* _stopReceiving for a sibling that is not in it change nothing: the set,
\* the cached rectangle and the cached scroll position of the container stay
\* as they were, for every container.
C24_ReceivingIdempotent ==
  [][(\/ /\ op'.name = "_startReceiving"
         /\ op'.arg \in _activeSiblings[op'.c]
      \/ /\ op'.name = "_stopReceiving"
         /\ op'.arg \notin _activeSiblings[op'.c])
     => /\ _activeSiblings' = _activeSiblings
        /\ _clientRect' = _clientRect
        /\ _scrollPosition' = _scrollPosition]_vars

\* C24 happens: a container that was scrolled since it was measured is told
\* again of a gesture it knows of, and its cached scroll position is still
\* the old one.
C24_Witness ==
  /\ op.name = "_startReceiving"
  /\ op.arg \in _activeSiblings[op.c]
  /\ _clientRect[op.c] # NoRect
  /\ _scrollPosition[op.c] # scrollTop[op.c]

\* C25: _sortItem with sorting disabled, or with the pointer outside the
\* proximity band of the container, leaves the position cache with its
\* order, offsets and rectangles, the last swap and the transforms as they
\* were, emits nothing and throws nothing.
C25_SortNoOp ==
  [][(/\ op'.name = "_sortItem"
      /\ \/ sortingDisabled[op'.c]
         \/ ~NearContainer(_clientRect[op'.c], op'.p[1], op'.p[2]))
     => /\ _itemPositions' = _itemPositions
        /\ _previousSwap' = _previousSwap
        /\ transform' = transform
        /\ placeholderTransform' = placeholderTransform
        /\ emitted' = <<>>
        /\ error' = "none"]_vars

\* C25 happens: _sortItem with sorting disabled and the pointer over a
\* sibling of the dragged item.
C25_Witness ==
  /\ op.name = "_sortItem"
  /\ sortingDisabled[op.c]
  /\ \E k \in 1..Len(_itemPositions[op.c]) :
       /\ _itemPositions[op.c][k].drag # op.item
       /\ Covers(_itemPositions[op.c][k].clientRect, op.p)

\* C25 happens as well with sorting enabled and the pointer far from the
\* container, after a swap that the call leaves alone.
C25_WitnessOutside ==
  /\ op.name = "_sortItem"
  /\ ~sortingDisabled[op.c]
  /\ op.p = <<90, 30>>
  /\ _previousSwap[op.c].drag # NoItem

\* The last operation cached the item positions of its container again.
Recached ==
  /\ \/ op.name \in {"start", "enter"}
     \/ op.name = "withItems" /\ _isDragging[op.c]
  /\ error = "none"

\* C26: after start, enter and withItems during a gesture the position cache
\* of the container is in ascending order of the left edges, and of the top
\* edges among entries with the same left edge.
C26_CacheSortedLeftTop ==
  Recached =>
    \A j, k \in 1..Len(_itemPositions[op.c]) :
      j < k =>
        \/ _itemPositions[op.c][j].clientRect.left
             < _itemPositions[op.c][k].clientRect.left
        \/ /\ _itemPositions[op.c][j].clientRect.left
               = _itemPositions[op.c][k].clientRect.left
           /\ _itemPositions[op.c][j].clientRect.top
               <= _itemPositions[op.c][k].clientRect.top

\* C26 happens: the members changed during a gesture that had sorted, and
\* the cache is not in the order of the active list.
C26_Witness ==
  /\ Recached
  /\ op.name = "withItems"
  /\ Len(_itemPositions[op.c]) >= 3
  /\ CacheOrder(_itemPositions[op.c]) # _activeDraggables[op.c]

\* The node _updateRootElement resolves: the closest ancestor matching the
\* selector, or the node of the directive when there is no selector or no
\* match.
ResolvedRoot(r) ==
  IF r.rootElementSelector # ""
       /\ getClosestMatchingAncestor(r.element, r.rootElementSelector) # "null"
    THEN getClosestMatchingAncestor(r.element, r.rootElementSelector)
    ELSE r.element

\* C27: when the root of a resizable is set up and the node resolved is not
\* an element node, the set-up throws, and that node is not installed as the
\* root element of the ResizeRef.
C27_NonElementRootRaises ==
  [][(/\ cdkResize'.call = "_updateRootElement"
      /\ ~IsElement(ResolvedRoot(cdkResize')))
       => /\ cdkResize'.thrown = "Error"
          /\ cdkResize'._rootElement = cdkResize._rootElement]_cdkResize

\* C27, the part the code keeps: a directive on a node that is not an element,
\* with no root selector, throws and installs nothing.
C27_NonElementHostRaises ==
  [][(/\ cdkResize'.call = "_updateRootElement"
      /\ cdkResize'.rootElementSelector = ""
      /\ ~IsElement(cdkResize'.element))
       => /\ cdkResize'.thrown = "Error"
          /\ cdkResize'._rootElement = cdkResize._rootElement]_cdkResize

C27_Witness ==
  /\ cdkResize.call = "_updateRootElement"
  /\ cdkResize.element = "comment"
  /\ cdkResize.rootElementSelector = "none"
  /\ cdkResize._rootElement = "comment"
  /\ cdkResize.thrown = "none"

\* The node a boundary input names: the element itself, or the element that
\* carries the class of the selector.
BoundaryNode(boundary) == boundary.of

\* C28: when a gesture is announced and the boundary of the resizable, given
\* as an element or as a selector, names a node that does not contain the
\* resizable, the announcement throws.
C28_BoundaryOutsideRaises ==
  (/\ cdkResize.call = "beforeStarted"
   /\ cdkResize.boundaryElement.kind \in {"element", "selector"}
   /\ ~contains(BoundaryNode(cdkResize.boundaryElement), cdkResize.element))
    => cdkResize.thrown = "Error"

\* C28, the part the code keeps: an element that does not contain the
\* resizable throws in development mode, and is not installed.
C28_ElementOutsideRaisesInDevMode ==
  [][(/\ cdkResize'.call = "beforeStarted"
      /\ cdkResize'.devMode
      /\ cdkResize'.boundaryElement.kind = "element"
      /\ ~contains(cdkResize'.boundaryElement.of, cdkResize'.element))
       => /\ cdkResize'.thrown = "Error"
          /\ cdkResize'._boundaryElement = cdkResize._boundaryElement]_cdkResize

C28_Witness ==
  /\ cdkResize.call = "beforeStarted"
  /\ ~cdkResize.devMode
  /\ cdkResize.boundaryElement = [kind |-> "element", of |-> "aside"]
  /\ cdkResize._boundaryElement = "aside"
  /\ cdkResize.thrown = "none"

\* The sibling of the last swap in container c lies under the pointer p, and
\* the pointer-direction object delta is the one of that swap.
HoversLastSwap(c, p, delta) ==
  /\ _previousSwap[c].drag # NoItem
  /\ _previousSwap[c].delta = delta
  /\ \E k \in 1..Len(_itemPositions[c]) :
       /\ _itemPositions[c][k].drag = _previousSwap[c].drag
       /\ Covers(_itemPositions[c][k].clientRect, p)

\* C29: after a swap of the dragged item with a sibling, a further _sortItem
\* with the pointer over that sibling and the same pointer direction does not
\* swap again: the order of the cache is unchanged.
C29_NoSwapWhileHovering ==
  [][(op'.name = "_sortItem" /\ HoversLastSwap(op'.c, op'.p, op'.arg))
       => Drags(_itemPositions'[op'.c]) = Drags(_itemPositions[op'.c])]_vars

\* C29 witness: a _sortItem with the pointer over the sibling of the last swap
\* and the pointer-direction object of that swap emitted no sorted event.
C29_Witness ==
  /\ op.name = "_sortItem" /\ sorts >= 1
  /\ ~sortingDisabled[op.c]
  /\ HoversLastSwap(op.c, op.p, op.arg)
  /\ SortedEvents = <<>>

\* The rectangle the cache holds for an item.
CachedRectOf(cache, item) ==
  cache[CHOOSE k \in 1..Len(cache) : cache[k].drag = item].clientRect

\* The dragged item a and the sibling b are neighbours in the cache and of
\* the same size.
AdjacentSameSize(cache, a, b) ==
  /\ a \in Elems(Drags(cache)) /\ b \in Elems(Drags(cache)) /\ a # b
  /\ indexOf(Drags(cache), a) - indexOf(Drags(cache), b) \in {-1, 1}
  /\ CachedRectOf(cache, a).width = CachedRectOf(cache, b).width
  /\ CachedRectOf(cache, a).height = CachedRectOf(cache, b).height

\* C30: when _sortItem swaps the dragged item with a neighbour of the same
\* size, the two cached rectangles are exchanged, and the set of cached
\* rectangles is the one before the swap.
C30_SwapExchangesRects ==
  [][ LET c == op'.c
          a == op'.item
          b == _previousSwap'[c].drag
          before == _itemPositions[c]
          after == _itemPositions'[c]
      IN (op'.name = "_sortItem" /\ Len(SortedEvents') = 1
          /\ AdjacentSameSize(before, a, b))
         => /\ CachedRectOf(after, a) = CachedRectOf(before, b)
            /\ CachedRectOf(after, b) = CachedRectOf(before, a)
            /\ {after[k].clientRect : k \in 1..Len(after)}
                 = {before[k].clientRect : k \in 1..Len(before)} ]_vars

\* C30, the part the code keeps: the cached rectangle of the dragged item
\* becomes the one its neighbour had.
C30_DraggedTakesSiblingRect ==
  [][ LET c == op'.c
          a == op'.item
          b == _previousSwap'[c].drag
      IN (op'.name = "_sortItem" /\ Len(SortedEvents') = 1
          /\ AdjacentSameSize(_itemPositions[c], a, b))
         => CachedRectOf(_itemPositions'[c], a)
              = CachedRectOf(_itemPositions[c], b) ]_vars

\* Every rectangle of the cache before is, in the cache after, shifted by
\* (top, left).
RectsShifted(before, after, top, left) ==
  /\ Elems(Drags(after)) = Elems(Drags(before))
  /\ \A k \in 1..Len(before) :
       CachedRectOf(after, before[k].drag)
         = adjustClientRect(before[k].clientRect, top, left)

\* Container c handles the scroll of its element in this step.
ElementScrollHandled(c) ==
  op'.name = "scroll" /\ op'.c = c /\ scrollListener[c] /\ _isDragging[c]

\* Container c handles the scroll of the viewport in this step.
ViewportScrollHandled(c) ==
  op'.name = "viewportScroll" /\ viewportSub[c] /\ _isDragging[c]

\* A scroll that reaches container c while it is not dragging.
ScrollWhileIdle(c) ==
  /\ \/ op'.name = "scroll" /\ op'.c = c
     \/ op'.name = "viewportScroll"
  /\ ~_isDragging[c]

\* What container c caches of positions.
CachedPositions(c) ==
  <<_itemPositions[c], _clientRect[c], _scrollPosition[c],
    _viewportScrollPosition[c]>>

\* The stored scroll positions of c are the new ones, and a scroll while c is
\* not dragging changed nothing.
ScrollPositionStored(c) ==
  /\ ElementScrollHandled(c) => _scrollPosition'[c] = scrollTop'[c]
  /\ ViewportScrollHandled(c) => _viewportScrollPosition'[c] = viewportScroll'
  /\ ScrollWhileIdle(c) => CachedPositions(c)' = CachedPositions(c)

\* The cached rectangles of c are shifted by the distance scrolled, for a
\* scroll of the viewport the rectangle of the container as well.
ScrollShiftsRects(c) ==
  /\ ElementScrollHandled(c)
       => RectsShifted(_itemPositions[c], _itemPositions'[c],
                       scrollTop[c] - scrollTop'[c], 0)
  /\ ViewportScrollHandled(c)
       => /\ RectsShifted(_itemPositions[c], _itemPositions'[c],
                          viewportScroll.top - viewportScroll'.top,
                          viewportScroll.left - viewportScroll'.left)
          /\ _clientRect'[c] =
               adjustClientRect(_clientRect[c],
                                viewportScroll.top - viewportScroll'.top,
                                viewportScroll.left - viewportScroll'.left)

\* C31 (as stated): when the element of a container or the viewport scrolls
\* during a gesture, every cached item rectangle is shifted by the distance
\* scrolled (and the rectangle of the container, for the viewport), the stored
\* scroll position is the new one, and a scroll while the container is not
\* dragging changes nothing.
C31_ScrollShiftsCache ==
  [][\A c \in Containers : ScrollShiftsRects(c) /\ ScrollPositionStored(c)]_vars

\* C31 (amended): the same, the shift of the rectangles being claimed only of
\* a scroll after which the dragged item, sorted again from the last pointer
\* position, was not swapped.
C31_ScrollShiftsCacheUnlessResorted ==
  [][\A c \in Containers :
       /\ SortedEvents' = <<>> => ScrollShiftsRects(c)
       /\ ScrollPositionStored(c)]_vars

\* C31 witness: the viewport was scrolled to the right during a gesture in X
\* without a swap, and the cached rectangles of X moved to the left.
C31_Witness ==
  /\ op.name = "viewportScroll" /\ _isDragging["X"]
  /\ viewportScroll = [top |-> 0, left |-> Cell.size]
  /\ _viewportScrollPosition["X"] = viewportScroll
  /\ _clientRect["X"].left = Layout["X"].left - Cell.size
  /\ SortedEvents = <<>>

\* C32: with sorting disabled, when the item enters the container it started
\* in, whatever the pointer position, the active list is the declared member
\* list afterwards.
C32_ReturnsToDeclaredIndex ==
  [][(/\ op'.name = "enter" /\ error' = "none"
      /\ sortingDisabled'[op'.c]
      /\ op'.c = drag.initial)
       => _activeDraggables'[op'.c] = _draggables'[op'.c]]_vars

\* C32 witness: c was dragged out of X and entered X again with sorting
\* disabled, the pointer over the first cell, and stands last as declared.
C32_Witness ==
  /\ op.name = "enter" /\ op.c = "X" /\ op.item = "c" /\ drag.initial = "X"
  /\ sortingDisabled["X"] /\ op.p = <<30, 30>>
  /\ _activeDraggables["X"] = <<"a", "b", "c">>

\* How often the item occurs in the sequence.
Occurrences(seq, item) == Cardinality({k \in 1..Len(seq) : seq[k] = item})

EnteredEvents == SelectSeq(emitted, LAMBDA e : e.type = "entered")

\* C33: after enter the item occurs exactly once in the active list and
\* exactly once in the position cache, also when it was a member of the
\* container already, and exactly one entered event is emitted, whose
\* currentIndex is what getItemIndex answers for the item afterwards.
C33_EnteredOnce ==
  (op.name = "enter" /\ error = "none")
    => /\ Occurrences(_activeDraggables[op.c], op.item) = 1
       /\ Occurrences(Drags(_itemPositions[op.c]), op.item) = 1
       /\ Len(EnteredEvents) = 1
       /\ EnteredEvents[1].item = op.item
       /\ EnteredEvents[1].container = op.c
       /\ EnteredEvents[1].currentIndex = getItemIndex(Cur, op.c, op.item)

\* C33 witness: c was dragged out of X, where it is a declared member, and
\* has entered X again.
C33_Witness ==
  /\ op.name = "enter" /\ op.c = "X" /\ op.item = "c" /\ drag.initial = "X"
  /\ ~sortingDisabled["X"]
  /\ "c" \in Elems(_draggables["X"])
  /\ Len(EnteredEvents) = 1

\* C34: while a gesture goes on in a container, the dragged item is in the
\* active list and in the position cache of that container, also after
\* withItems was called during the gesture.
C34_DraggedItemIsCached ==
  (Gesture /\ _isDragging[drag.container])
    => /\ drag.item \in Elems(_activeDraggables[drag.container])
       /\ drag.item \in Elems(Drags(_itemPositions[drag.container]))

\* C34, the part the code keeps: the same, as long as the members of the
\* container were not changed since the item came into it.
C34_DraggedItemIsCachedUntilChange ==
  (Gesture /\ _isDragging[drag.container] /\ op.name # "withItems"
   /\ changes = 0)
    => /\ drag.item \in Elems(_activeDraggables[drag.container])
       /\ drag.item \in Elems(Drags(_itemPositions[drag.container]))

\* Container k is in a gesture and c is one of its siblings.
SiblingDrags(c) ==
  \E k \in Containers \ {c} : _isDragging[k] /\ c \in Elems(_siblings[k])

\* C35: a container reports isReceiving() while a container connected to it
\* is in a gesture, only while some other container is in a gesture, and no
\* container reports it once no gesture goes on anywhere.
C35_ReceivingWhileSiblingDrags ==
  \A c \in Containers :
    /\ SiblingDrags(c) => isReceiving(Cur, c)
    /\ isReceiving(Cur, c) => \E k \in Containers \ {c} : _isDragging[k]
    /\ drag.item = NoItem => ~isReceiving(Cur, c)

\* C35, the part the code keeps: as long as connectedTo is called only by
\* start(), the same holds.
C35_ReceivingWhileSiblingDragsFixed ==
  \A c \in Containers :
    /\ SiblingDrags(c) <=> isReceiving(Cur, c)
    /\ drag.item = NoItem => ~isReceiving(Cur, c)

\* C36: a container has at most one scroll listener on its element and at
\* most one open subscription to the scroll stream, however often it is
\* started or entered, and none of either while no gesture goes on in it.
C36_OneListenerWhileDragging ==
  \A c \in Containers :
    /\ scrollSubscriptions[c] <= 1
    /\ ~_isDragging[c] => ~scrollListener[c] /\ scrollSubscriptions[c] = 0

\* C36 witness: start() was called again during a gesture in X, and X has
\* its one listener and its one subscription.
C36_Witness ==
  /\ op.name = "start again" /\ op.c = "X" /\ _isDragging["X"]
  /\ scrollListener["X"] /\ scrollSubscriptions["X"] = 1

\* C37: the resize items of the registry that are in a gesture are among its
\* registered resize items, after any calls of registerResizeItem,
\* removeResizeItem, startResizing and stopResizing.
C37_ActiveAreRegistered ==
  registry._activeResizeInstances \subseteq registry._resizeInstances

\* C37, the part the code keeps: removeResizeItem takes the item out of both
\* sets.
C37_RemovedIsNotActive ==
  registry.call.name = "removeResizeItem"
    => /\ registry.call.arg \notin registry._resizeInstances
       /\ registry.call.arg \notin registry._activeResizeInstances

\* C38: after ngOnDestroy of the registry no drop container and no resize
\* item is registered, no resize item is in a gesture, no listener of the
\* registry is bound on the document, and the subjects pointerMove, pointerUp
\* and scroll are completed.
C38_DestroyedRegistry ==
  registry.call.name = "ngOnDestroy"
    => /\ registry._dropInstances = {}
       /\ registry._resizeInstances = {}
       /\ registry._activeResizeInstances = {}
       /\ registry.listeners = <<>>
       /\ registry.completed = {"pointerMove", "pointerUp", "scroll"}

\* C38, the part the code keeps: all of it but the completion of scroll.
C38_DestroyedRegistryButScroll ==
  registry.call.name = "ngOnDestroy"
    => /\ registry._dropInstances = {}
       /\ registry._resizeInstances = {}
       /\ registry._activeResizeInstances = {}
       /\ registry.listeners = <<>>
       /\ registry.completed = {"pointerMove", "pointerUp"}

\* _startScrollingIfNecessary is called on a container whose flag is set.
CalledWhileDisabled ==
  op'.name = "_startScrollingIfNecessary" /\ autoScrollDisabled[op'.c]

\* C39: while the autoScrollDisabled flag of a container is true, no scroll
\* interval of the container is subscribed, so none advances a frame, and
\* _startScrollingIfNecessary starts none and changes no state.
C39_DisabledNeverScrolls ==
  [][/\ \A c \in Containers : autoScrollDisabled'[c] => scrollLoops'[c] = 0
     /\ CalledWhileDisabled
          => /\ scrollLoops' = scrollLoops /\ scrollDir' = scrollDir
             /\ scrollStarted' = {}]_vars

\* C39, the part the code keeps: _startScrollingIfNecessary on a container
\* whose flag is set starts no interval and changes no state.
C39_DisabledStartsNothing ==
  [][CalledWhileDisabled
       => /\ scrollLoops' = scrollLoops /\ scrollDir' = scrollDir
          /\ scrollStarted' = {}]_vars

============================================================================
